---- MODULE Spec2Model ----
(***************************************************************************)
(* ATS scoring engine of cv-builder: ATSScorer.score() and the helpers it  *)
(* calls, as a state machine over the records handed to it.                *)
(*                                                                         *)
(* A Python str is a sequence of one-character strings, so that lower(),   *)
(* substring tests, split() and the regular expressions act on characters. *)
(* A Python float score is an exact rational <<numerator, denominator>> in *)
(* lowest terms; round(x, 2) yields an integer number of hundredths.       *)
(***************************************************************************)
EXTENDS Integers, Sequences, FiniteSets, TLC

VARIABLES
    matcher,      \* a KeywordMatcher constructed on its own: the fields __init__ sets
    scorers,      \* ATSScorer instances: id -> the fields __init__ sets
    resume_data,  \* the resume record of the current request
    job_data,     \* the job record of the current request
    budget,       \* score() calls the run still makes
    calls,        \* completed score() calls: <<[scorer, resume_data, job_data, result]>>
    job_description,  \* the job text handed to JobAnalyzer.analyze
    args,         \* the arguments of the call in progress (per thread, where threads call)
    returned      \* what that call returned

vars == <<matcher, scorers, resume_data, job_data, budget, calls, job_description, args, returned>>

----------------------------------------------------------------------------
(* Bounds of the model *)

MaxCalls == 3      \* score() calls per run of the repeated-call specification
MaxPadding == 1    \* 100-character filler blocks a resume text may carry
MaxSkills == 2     \* skills in a list handed to categorize_skills
MaxWords == 4      \* words in a text handed to KeywordExtractor.extract
MaxTopN == 2       \* top_n handed to KeywordExtractor.extract
MaxJobLines == 3   \* lines of a job description
NumThreads == 2    \* threads that call score() at the same time
MaxItems == 2      \* items in a section of a job description handed to RequirementsParser.parse
MaxResumeKeywords == 2   \* resume keywords handed to KeywordMatcher.match_keywords
MaxJobKeywords == 3      \* job keywords handed to KeywordMatcher.match_keywords

----------------------------------------------------------------------------
(* Python str / list primitives *)

UpperChars == <<"A","B","C","D","E","F","G","H","I","J","K","L","M",
                "N","O","P","Q","R","S","T","U","V","W","X","Y","Z">>
LowerChars == <<"a","b","c","d","e","f","g","h","i","j","k","l","m",
                "n","o","p","q","r","s","t","u","v","w","x","y","z">>
DigitChars == <<"0","1","2","3","4","5","6","7","8","9">>
WhitespaceChars == {" ", "\n", "\t"}

Range(s) == {s[i] : i \in DOMAIN s}

\* F(v), with v evaluated once
With(v, F(_)) == CHOOSE r \in {F(x) : x \in {v}} : TRUE

\* the characters the records are written in
OtherChars == {" ", "\n", "\t", "+", "-", ".", ",", ":", "@", "/", "#", "_", "(", ")", "'",
               ";", "!", "?", "*", "{", "}", "[", "]", "\""}
Chars == Range(UpperChars) \cup Range(LowerChars) \cup Range(DigitChars) \cup OtherChars

\* str.lower() on one character
LowerChar ==
    [c \in Chars |->
        IF \E i \in 1..26 : UpperChars[i] = c
        THEN LowerChars[CHOOSE i \in 1..26 : UpperChars[i] = c]
        ELSE c]

\* str.upper() on one character
UpperChar ==
    [c \in Chars |->
        IF \E i \in 1..26 : LowerChars[i] = c
        THEN UpperChars[CHOOSE i \in 1..26 : LowerChars[i] = c]
        ELSE c]

\* str.lower()
Lower(s) == [i \in DOMAIN s |-> LowerChar[s[i]]]

\* k in t, for two str
Contains(t, k) ==
    \E tt \in {t}, kk \in {k} :
        \/ Len(kk) = 0
        \/ \E i \in 1..(Len(tt) - Len(kk) + 1) :
              tt[i] = kk[1] /\ SubSeq(tt, i, i + Len(kk) - 1) = kk

IsDigit(c) == \E i \in 1..10 : DigitChars[i] = c
DigitValue(c) == (CHOOSE i \in 1..10 : DigitChars[i] = c) - 1

RECURSIVE DigitsValue(_)
\* int() of a run of digits
DigitsValue(s) ==
    IF Len(s) = 0 THEN 0
    ELSE 10 * DigitsValue(SubSeq(s, 1, Len(s) - 1)) + DigitValue(s[Len(s)])

IsDigits(s) == Len(s) > 0 /\ \A i \in DOMAIN s : IsDigit(s[i])

\* the pieces of t between the positions cut, which are in increasing order
Pieces(t, cut) ==
    LET n == Cardinality(cut)
        at == [k \in 1..n |-> CHOOSE x \in cut : Cardinality({y \in cut : y < x}) = k - 1]
        from(k) == IF k = 1 THEN 1 ELSE at[k - 1] + 1
        to(k) == IF k = n + 1 THEN Len(t) ELSE at[k] - 1
    IN  [k \in 1..(n + 1) |-> SubSeq(t, from(k), to(k))]

\* str.split(sep) for a one-character sep: empty pieces are kept
SplitOn(t, sep) ==
    With(t, LAMBDA tt : Pieces(tt, {i \in DOMAIN tt : tt[i] = sep}))

\* str.split(): runs of whitespace separate, empty pieces are dropped
SplitWs(t) ==
    With(t, LAMBDA tt :
        SelectSeq(Pieces(tt, {i \in DOMAIN tt : tt[i] \in WhitespaceChars}),
                  LAMBDA p : Len(p) > 0))

\* str.strip()
Strip(t) ==
    With(t, LAMBDA tt :
        IF \A i \in DOMAIN tt : tt[i] \in WhitespaceChars THEN <<>>
        ELSE SubSeq(tt,
                    CHOOSE i \in DOMAIN tt :
                        tt[i] \notin WhitespaceChars
                        /\ \A j \in 1..(i - 1) : tt[j] \in WhitespaceChars,
                    CHOOSE i \in DOMAIN tt :
                        tt[i] \notin WhitespaceChars
                        /\ \A j \in (i + 1)..Len(tt) : tt[j] \in WhitespaceChars))

\* seq[:n]
Take(s, n) == SubSeq(s, 1, IF Len(s) < n THEN Len(s) ELSE n)

\* [f(x) for x in s]
LowerAll(s) == [i \in DOMAIN s |-> Lower(s[i])]

\* number of positions of s whose element satisfies P
CountIf(s, P(_)) == Cardinality({i \in DOMAIN s : P(s[i])})

----------------------------------------------------------------------------
(* float arithmetic, exact *)

RECURSIVE GCD(_, _)
GCD(a, b) == IF b = 0 THEN a ELSE GCD(b, a % b)

Abs(x) == IF x < 0 THEN 0 - x ELSE x

\* n/d in lowest terms, d > 0
Rat(n, d) == LET g == GCD(Abs(n), d) IN <<n \div g, d \div g>>

RInt(n) == <<n, 1>>
RAdd(p, q) == Rat(p[1] * q[2] + q[1] * p[2], p[2] * q[2])
RMul(p, q) == Rat(p[1] * q[1], p[2] * q[2])
RLess(p, q) == p[1] * q[2] < q[1] * p[2]
RLeq(p, q) == p[1] * q[2] <= q[1] * p[2]
RMin(p, q) == IF RLeq(p, q) THEN p ELSE q
RMax(p, q) == IF RLeq(p, q) THEN q ELSE p

\* round(x, 2), in hundredths: nearest, ties to even
Round2(q) ==
    LET n == q[1] * 100
        x == n \div q[2]
        r == n % q[2]
    IN  IF 2 * r > q[2] THEN x + 1
        ELSE IF 2 * r = q[2] THEN x + (x % 2)
        ELSE x

----------------------------------------------------------------------------
(* Dict[str, Any] records.  A key of a dict is absent, holds None, or holds *)
(* a value; v is the value, and the empty value of its type otherwise.      *)

Val(v) == [st |-> "val", v |-> v]
Absent(empty) == [st |-> "absent", v |-> empty]
None(empty) == [st |-> "none", v |-> empty]

\* d.get(key, default) where default is the empty value of the type
Get(field) == field.v

\* the value d.get(key, default) returns is None
IsNone(field) == field.st = "none"

NoContact == [email |-> <<>>, phone |-> <<>>, linkedin |-> <<>>]
NoKeywords == [single_words |-> <<>>, phrases |-> <<>>]
NoExperience == [level |-> <<>>, years |-> <<>>]
NoEducation == [degree_level |-> <<>>, field_of_study |-> <<>>, certifications |-> <<>>]

\* the dict {}
EmptyResume ==
    [raw_text |-> Absent(<<>>), skills |-> Absent(<<>>), hard_skills |-> Absent(<<>>),
     soft_skills |-> Absent(<<>>), contact_info |-> Absent(NoContact),
     file_format |-> Absent(<<>>)]

EmptyJob ==
    [keywords |-> Absent(NoKeywords), required_skills |-> Absent(<<>>),
     required_hard_skills |-> Absent(<<>>), preferred_hard_skills |-> Absent(<<>>),
     all_hard_skills |-> Absent(<<>>), required_soft_skills |-> Absent(<<>>),
     preferred_soft_skills |-> Absent(<<>>), all_soft_skills |-> Absent(<<>>),
     job_title |-> Absent(<<>>), experience_required |-> Absent(NoExperience),
     education_required |-> Absent(NoEducation)]

----------------------------------------------------------------------------
(* ATSScorer: the component scores *)

TopSingleWords == 10
TopPhrases == 5

\* important_keywords without the [:10] and [:5] cuts
important_keywords_uncut(job) ==
    LET job_keywords == job.keywords IN
    IF IsNone(job_keywords) THEN <<>>
    ELSE [i \in DOMAIN Get(job_keywords).single_words |->
             Get(job_keywords).single_words[i].keyword] \o Get(job_keywords).phrases

\* the keywords list _calculate_keyword_score builds
important_keywords(job) ==
    LET job_keywords == job.keywords IN
    IF IsNone(job_keywords) THEN <<>>
    ELSE LET single_words == Take(Get(job_keywords).single_words, TopSingleWords)
             phrases == Take(Get(job_keywords).phrases, TopPhrases)
         IN  [i \in DOMAIN single_words |-> single_words[i].keyword] \o phrases

_calculate_keyword_score(resume, job) ==
    LET resume_text == Lower(Get(resume.raw_text))
        keywords == important_keywords(job)
        matched == CountIf(keywords, LAMBDA k : Len(k) > 0 /\ Contains(resume_text, Lower(k)))
        score == IF Len(keywords) > 0
                 THEN RMul(Rat(matched, Len(keywords)), RInt(100))
                 ELSE RInt(50)
    IN  RMin(score, RInt(100))

\* (required_score * wr) + (preferred_score * wp) of a resume set against two job sets
weighted_skill_match(resume_set, required, preferred, wr, wp) ==
    LET required_score ==
            IF required # {}
            THEN RMul(Rat(Cardinality(resume_set \cap required), Cardinality(required)), RInt(100))
            ELSE RInt(100)
        preferred_score ==
            IF preferred # {}
            THEN RMul(Rat(Cardinality(resume_set \cap preferred), Cardinality(preferred)), RInt(100))
            ELSE RInt(100)
    IN  RAdd(RMul(required_score, wr), RMul(preferred_score, wp))

\* the body shared by _calculate_hard_skills_score and _calculate_soft_skills_score:
\* the lists lower-cased into sets, the all_* fallback, the default, the weighting
skills_match_score(resume_skills, required, preferred, all_job, default, wr, wp) ==
    LET resume_set == Range(LowerAll(resume_skills))
        required0 == Range(LowerAll(required))
        preferred_set == Range(LowerAll(preferred))
        all_set == Range(LowerAll(all_job))
        required_set ==
            IF required0 = {} /\ preferred_set = {} /\ all_set # {} THEN all_set ELSE required0
    IN  IF required_set = {} /\ preferred_set = {} THEN RInt(default)
        ELSE RMin(weighted_skill_match(resume_set, required_set, preferred_set, wr, wp),
                  RInt(100))

\* _calculate_hard_skills_score with the 0.7 / 0.3 weighting of _calculate_skills_score
_calculate_hard_skills_score_legacy(resume, job) ==
    skills_match_score(Get(resume.hard_skills), Get(job.required_hard_skills),
                       Get(job.preferred_hard_skills), Get(job.all_hard_skills),
                       75, Rat(7, 10), Rat(3, 10))

_calculate_hard_skills_score(resume, job) ==
    skills_match_score(Get(resume.hard_skills), Get(job.required_hard_skills),
                       Get(job.preferred_hard_skills), Get(job.all_hard_skills),
                       75, Rat(8, 10), Rat(2, 10))

_calculate_soft_skills_score(resume, job) ==
    skills_match_score(Get(resume.soft_skills), Get(job.required_soft_skills),
                       Get(job.preferred_soft_skills), Get(job.all_soft_skills),
                       80, Rat(6, 10), Rat(4, 10))

title_indicators ==
    <<<<"s","o","f","t","w","a","r","e"," ","e","n","g","i","n","e","e","r">>, <<"d","e","v","e","l","o","p","e","r">>, <<"p","r","o","g","r","a","m","m","e","r">>, <<"a","n","a","l","y","s","t">>, <<"m","a","n","a","g","e","r">>,
      <<"d","i","r","e","c","t","o","r">>, <<"l","e","a","d">>, <<"s","e","n","i","o","r">>, <<"j","u","n","i","o","r">>, <<"p","r","i","n","c","i","p","a","l">>, <<"a","r","c","h","i","t","e","c","t">>,
      <<"c","o","n","s","u","l","t","a","n","t">>, <<"s","p","e","c","i","a","l","i","s","t">>, <<"c","o","o","r","d","i","n","a","t","o","r">>, <<"s","u","p","e","r","v","i","s","o","r">>, <<"d","e","s","i","g","n","e","r">>,
      <<"d","a","t","a"," ","s","c","i","e","n","t","i","s","t">>, <<"p","r","o","d","u","c","t"," ","m","a","n","a","g","e","r">>, <<"p","r","o","j","e","c","t"," ","m","a","n","a","g","e","r">>, <<"e","n","g","i","n","e","e","r">>>>

TitleLines == 10

_extract_resume_titles(resume_text) ==
    LET lines == Take(SplitOn(resume_text, "\n"), TitleLines)
        hit(line) == \E i \in DOMAIN title_indicators :
                         Contains(Lower(Strip(line)), title_indicators[i])
        kept == SelectSeq(lines, hit)
    IN  [i \in DOMAIN kept |-> Strip(kept[i])]

title_stop_words ==
    {<<"t","h","e">>, <<"a">>, <<"a","n">>, <<"a","n","d">>, <<"o","r">>, <<"b","u","t">>, <<"i","n">>, <<"o","n">>, <<"a","t">>, <<"t","o">>,
     <<"f","o","r">>, <<"o","f">>, <<"w","i","t","h">>, <<"b","y">>}

_extract_job_title_keywords(job_title) ==
    SelectSeq(SplitWs(Lower(job_title)), LAMBDA w : w \notin title_stop_words /\ Len(w) > 2)

RECURSIVE RMaxOver(_, _)
\* max of start and the rationals of a sequence
RMaxOver(start, qs) ==
    IF Len(qs) = 0 THEN start ELSE RMaxOver(RMax(start, Head(qs)), Tail(qs))

\* the part of _calculate_job_title_score after its early return
title_match_score(resume_text, job_title) ==
        LET resume_titles == _extract_resume_titles(resume_text)
            job_title_words == Range(SplitWs(job_title))
            overlap(resume_title) ==
                LET resume_title_words == Range(SplitWs(Lower(resume_title))) IN
                IF job_title_words # {} /\ resume_title_words # {}
                THEN RMul(Rat(Cardinality(job_title_words \cap resume_title_words),
                              Cardinality(job_title_words)), RInt(100))
                ELSE RInt(0)
            title_max == RMaxOver(RInt(0), [i \in DOMAIN resume_titles |-> overlap(resume_titles[i])])
            job_title_keywords == _extract_job_title_keywords(job_title)
            keyword_matches == CountIf(job_title_keywords, LAMBDA k : Contains(resume_text, k))
            max_score ==
                IF Len(job_title_keywords) > 0
                THEN RMax(title_max, RMul(Rat(keyword_matches, Len(job_title_keywords)), RInt(100)))
                ELSE title_max
        IN  RMin(max_score, RInt(100))

\* _calculate_job_title_score without its early return
_calculate_job_title_score_no_default(resume, job) ==
    title_match_score(Lower(Get(resume.raw_text)), Lower(Get(job.job_title)))

_calculate_job_title_score(resume, job) ==
    LET resume_text == Lower(Get(resume.raw_text))
        job_title == Lower(Get(job.job_title))
    IN  IF Len(job_title) = 0 \/ job_title = <<"u","n","k","n","o","w","n"," ","p","o","s","i","t","i","o","n">> THEN RInt(75)
        ELSE title_match_score(resume_text, job_title)

level_keywords ==
    [entry |-> <<<<"e","n","t","r","y"," ","l","e","v","e","l">>, <<"j","u","n","i","o","r">>, <<"g","r","a","d","u","a","t","e">>, <<"i","n","t","e","r","n">>>>,
     mid |-> <<<<"m","i","d"," ","l","e","v","e","l">>, <<"i","n","t","e","r","m","e","d","i","a","t","e">>, <<"3","+"," ","y","e","a","r","s">>, <<"5","+"," ","y","e","a","r","s">>>>,
     senior |-> <<<<"s","e","n","i","o","r">>, <<"l","e","a","d">>, <<"p","r","i","n","c","i","p","a","l">>, <<"7","+"," ","y","e","a","r","s">>, <<"1","0","+"," ","y","e","a","r","s">>>>,
     executive |-> <<<<"d","i","r","e","c","t","o","r">>, <<"v","p">>, <<"c","h","i","e","f">>, <<"h","e","a","d"," ","o","f">>>>]

\* the key of level_keywords a level string names, "" when it names none
LevelKey(exp_level) ==
    IF exp_level = <<"e","n","t","r","y">> THEN "entry"
    ELSE IF exp_level = <<"m","i","d">> THEN "mid"
    ELSE IF exp_level = <<"s","e","n","i","o","r">> THEN "senior"
    ELSE IF exp_level = <<"e","x","e","c","u","t","i","v","e">> THEN "executive"
    ELSE ""

\* the end of the match of \+?\s*years? tried at position i of t, 0 when it fails
YearSuffixAt(t, i) ==
    LET afterPlus == IF i <= Len(t) /\ t[i] = "+" THEN i + 1 ELSE i
        nonWs == {j \in afterPlus..Len(t) : t[j] \notin WhitespaceChars}
        word == IF nonWs = {} THEN Len(t) + 1 ELSE CHOOSE j \in nonWs : \A k \in nonWs : j <= k
    IN  IF word + 3 <= Len(t) /\ SubSeq(t, word, word + 3) = <<"y","e","a","r">> THEN word + 3 ELSE 0

\* re.findall(r'(\d+)\+?\s*years?', t): the digit runs that the rest of the pattern follows
year_patterns(t) ==
    LET starts == {i \in DOMAIN t : IsDigit(t[i]) /\ (i = 1 \/ ~IsDigit(t[i - 1]))}
        runEnd(i) == CHOOSE j \in i..Len(t) :
                        /\ \A k \in i..j : IsDigit(t[k])
                        /\ (j = Len(t) \/ ~IsDigit(t[j + 1]))
    IN  {SubSeq(t, i, runEnd(i)) : i \in {s \in starts : YearSuffixAt(t, runEnd(s) + 1) # 0}}

\* the digits int(s) reads: surrounding whitespace and a leading "+" are accepted;
\* int(s) raises ValueError unless the result is a run of digits
IntDigits(s) ==
    LET u == Strip(s) IN IF Len(u) > 0 /\ u[1] = "+" THEN Tail(u) ELSE u

SetMax(S) == CHOOSE x \in S : \A y \in S : x >= y

\* years_bonus with max_years > required_years
years_bonus_strict(resume_text, years_required) ==
    LET found == year_patterns(resume_text)
        first == IntDigits(SplitOn(years_required, "-")[1])
    IN  IF Len(years_required) > 0 /\ found # {} /\ IsDigits(first)
           /\ SetMax({DigitsValue(y) : y \in found}) > DigitsValue(first)
        THEN 10 ELSE 0

\* what the years check of _calculate_experience_score adds to base_score
years_bonus(resume_text, years_required) ==
    LET found == year_patterns(resume_text)
        first == IntDigits(SplitOn(years_required, "-")[1])
    IN  IF Len(years_required) > 0 /\ found # {} /\ IsDigits(first)
           /\ SetMax({DigitsValue(y) : y \in found}) >= DigitsValue(first)
        THEN 10 ELSE 0

\* _calculate_experience_score that starts from 50 instead of 70
_calculate_experience_score_low_base(resume, job) ==
    LET job_exp == Get(job.experience_required)
        resume_text == Lower(Get(resume.raw_text))
        exp_level == job_exp.level
        level_bonus ==
            IF Len(exp_level) > 0 /\ LevelKey(exp_level) # ""
               /\ \E i \in DOMAIN level_keywords[LevelKey(exp_level)] :
                      Contains(resume_text, level_keywords[LevelKey(exp_level)][i])
            THEN 20 ELSE 0
    IN  RMin(RInt(50 + level_bonus + years_bonus(resume_text, job_exp.years)), RInt(100))

_calculate_experience_score(resume, job) ==
    LET job_exp == Get(job.experience_required)
        resume_text == Lower(Get(resume.raw_text))
        exp_level == job_exp.level
        level_bonus ==
            IF Len(exp_level) > 0 /\ LevelKey(exp_level) # ""
               /\ \E i \in DOMAIN level_keywords[LevelKey(exp_level)] :
                      Contains(resume_text, level_keywords[LevelKey(exp_level)][i])
            THEN 20 ELSE 0
    IN  RMin(RInt(70 + level_bonus + years_bonus(resume_text, job_exp.years)), RInt(100))

degree_keywords ==
    [bachelor |-> <<<<"b","a","c","h","e","l","o","r">>, <<"b",".","s",".">>, <<"b",".","a",".">>, <<"b","s","c">>, <<"b","a">>>>,
     master |-> <<<<"m","a","s","t","e","r">>, <<"m",".","s",".">>, <<"m",".","a",".">>, <<"m","s","c">>, <<"m","a">>, <<"m","b","a">>>>,
     phd |-> <<<<"p","h","d">>, <<"p","h",".","d">>, <<"d","o","c","t","o","r","a","t","e">>, <<"d","o","c","t","o","r","a","l">>>>,
     associate |-> <<<<"a","s","s","o","c","i","a","t","e">>>>]

DegreeKey(degree_level) ==
    IF degree_level = <<"b","a","c","h","e","l","o","r">> THEN "bachelor"
    ELSE IF degree_level = <<"m","a","s","t","e","r">> THEN "master"
    ELSE IF degree_level = <<"p","h","d">> THEN "phd"
    ELSE IF degree_level = <<"a","s","s","o","c","i","a","t","e">> THEN "associate"
    ELSE ""

\* score of _calculate_education_score before the final min(score, 100.0)
education_points(resume, job) ==
    LET job_edu == Get(job.education_required)
        resume_text == Lower(Get(resume.raw_text))
        degree_level == job_edu.degree_level
        degree_bonus ==
            IF Len(degree_level) > 0 /\ DegreeKey(degree_level) # ""
               /\ \E i \in DOMAIN degree_keywords[DegreeKey(degree_level)] :
                      Contains(resume_text, degree_keywords[DegreeKey(degree_level)][i])
            THEN 20 ELSE 0
        field_bonus ==
            IF \E i \in DOMAIN job_edu.field_of_study :
                   Contains(resume_text, Lower(job_edu.field_of_study[i]))
            THEN 10 ELSE 0
        cert_bonus == 5 * CountIf(job_edu.certifications,
                                  LAMBDA c : Contains(resume_text, Lower(c)))
    IN  70 + degree_bonus + field_bonus + cert_bonus

\* _calculate_education_score without the cap
_calculate_education_score_uncapped(resume, job) == RInt(education_points(resume, job))

_calculate_education_score(resume, job) ==
    RMin(RInt(education_points(resume, job)), RInt(100))

good_formats == {<<".","p","d","f">>, <<".","d","o","c","x">>, <<".","d","o","c">>}
important_sections == <<<<"e","x","p","e","r","i","e","n","c","e">>, <<"e","d","u","c","a","t","i","o","n">>, <<"s","k","i","l","l","s">>>>
MinTextLength == 100

\* the file format check, with a missing file_format taken for a good one
format_penalty_lenient(file_format) ==
    IF file_format = <<>> \/ file_format \in good_formats THEN 0 ELSE 20

\* the file format check of _calculate_formatting_score
format_penalty(file_format) == IF file_format \in good_formats THEN 0 ELSE 20

\* _calculate_formatting_score looking for the section names in the text as written
_calculate_formatting_score_case_sensitive(resume) ==
    LET resume_text == Get(resume.raw_text)
        file_format == Get(resume.file_format)
        contact_info == Get(resume.contact_info)
        parse_penalty == IF Len(resume_text) = 0 \/ Len(resume_text) < MinTextLength THEN 30 ELSE 0
        email_penalty == IF Len(contact_info.email) = 0 THEN 10 ELSE 0
        phone_penalty == IF Len(contact_info.phone) = 0 THEN 5 ELSE 0
        section_penalty == 5 * CountIf(important_sections,
                                       LAMBDA s : ~Contains(resume_text, s))
    IN  RMax(RInt(100 - format_penalty(file_format) - parse_penalty - email_penalty - phone_penalty
                  - section_penalty), RInt(0))

_calculate_formatting_score(resume) ==
    LET resume_text == Get(resume.raw_text)
        file_format == Get(resume.file_format)
        contact_info == Get(resume.contact_info)
        parse_penalty == IF Len(resume_text) = 0 \/ Len(resume_text) < MinTextLength THEN 30 ELSE 0
        email_penalty == IF Len(contact_info.email) = 0 THEN 10 ELSE 0
        phone_penalty == IF Len(contact_info.phone) = 0 THEN 5 ELSE 0
        section_penalty == 5 * CountIf(important_sections,
                                       LAMBDA s : ~Contains(Lower(resume_text), s))
    IN  RMax(RInt(100 - format_penalty(file_format) - parse_penalty - email_penalty - phone_penalty
                  - section_penalty), RInt(0))

----------------------------------------------------------------------------
(* ATSScorer: feedback and recommendations *)

AtLeast(score, n) == RLeq(RInt(n), score)
Below(score, n) == RLess(score, RInt(n))

\* the sentences of seq whose condition holds, in order
Sentences(seq) ==
    LET kept == SelectSeq(seq, LAMBDA e : e[1]) IN [i \in DOMAIN kept |-> kept[i][2]]

skill_variations ==
    <<[main |-> <<"j","a","v","a","s","c","r","i","p","t">>, variations |-> {<<"j","s">>, <<"e","c","m","a","s","c","r","i","p","t">>}],
      [main |-> <<"t","y","p","e","s","c","r","i","p","t">>, variations |-> {<<"t","s">>}],
      [main |-> <<"r","e","a","c","t">>, variations |-> {<<"r","e","a","c","t","j","s">>, <<"r","e","a","c","t",".","j","s">>}],
      [main |-> <<"a","n","g","u","l","a","r">>, variations |-> {<<"a","n","g","u","l","a","r","j","s">>}],
      [main |-> <<"n","o","d","e",".","j","s">>, variations |-> {<<"n","o","d","e","j","s">>, <<"n","o","d","e">>}],
      [main |-> <<"h","t","m","l">>, variations |-> {<<"h","t","m","l","5">>}],
      [main |-> <<"c","s","s">>, variations |-> {<<"c","s","s","3">>}],
      [main |-> <<"a","w","s">>, variations |-> {<<"a","m","a","z","o","n"," ","w","e","b"," ","s","e","r","v","i","c","e","s">>}],
      [main |-> <<"m","a","c","h","i","n","e"," ","l","e","a","r","n","i","n","g">>, variations |-> {<<"m","l">>}],
      [main |-> <<"a","r","t","i","f","i","c","i","a","l"," ","i","n","t","e","l","l","i","g","e","n","c","e">>, variations |-> {<<"a","i">>}]>>

\* skill_found of the missing_skills loop, for one required skill
skill_found(skill_lower, all_resume_skills) ==
    \/ skill_lower \in all_resume_skills
    \/ \E resume_skill \in all_resume_skills :
        \/ /\ Contains(resume_skill, skill_lower) \/ Contains(skill_lower, resume_skill)
           /\ Len(skill_lower) > 2
        \/ \E i \in DOMAIN skill_variations :
            \/ skill_lower = skill_variations[i].main
               /\ resume_skill \in skill_variations[i].variations
            \/ resume_skill = skill_variations[i].main
               /\ skill_lower \in skill_variations[i].variations

\* the strength sentence _generate_detailed_feedback holds for each component
strength_sentences ==
    [keywords |-> {"Excellent keyword match with job description"},
     hard_skills |-> {"Strong technical/hard skills alignment"},
     soft_skills |-> {"Excellent soft skills match"},
     job_title |-> {"Strong job title alignment"},
     experience |-> {},
     education |-> {},
     formatting |-> {"ATS-friendly formatting"}]

\* the weakness sentence _generate_detailed_feedback holds for each component
weakness_sentences ==
    [keywords |-> {"Low keyword match - consider using more terms from job description"},
     hard_skills |-> {"Technical/hard skills section needs improvement"},
     soft_skills |-> {"Soft skills section could be stronger"},
     job_title |-> {"Job title alignment could be improved"},
     experience |-> {"Experience section could be stronger"},
     education |-> {},
     formatting |-> {}]

StripLowerAll(s) == {Strip(Lower(s[i])) : i \in DOMAIN s}

_generate_detailed_feedback(resume, job, keyword_score, skills_score, hard_skills_score, soft_skills_score, job_title_score, experience_score, education_score, formatting_score) ==
    LET resume_text == Lower(Get(resume.raw_text))
        single_words ==
            IF IsNone(job.keywords) THEN <<>>
            ELSE Take(Get(job.keywords).single_words, TopSingleWords)
        words == [i \in DOMAIN single_words |-> single_words[i].keyword]
        resume_hard_skills == Range(LowerAll(Get(resume.hard_skills)))
        resume_soft_skills == Range(LowerAll(Get(resume.soft_skills)))
        all_resume_skills ==
            StripLowerAll(Get(resume.skills)) \cup StripLowerAll(Get(resume.hard_skills))
                \cup StripLowerAll(Get(resume.soft_skills))
    IN
    [strengths |-> Sentences(<<
        <<AtLeast(keyword_score, 80), "Excellent keyword match with job description">>,
        <<AtLeast(hard_skills_score, 80), "Strong technical/hard skills alignment">>,
        <<AtLeast(soft_skills_score, 80), "Excellent soft skills match">>,
        <<AtLeast(job_title_score, 80), "Strong job title alignment">>,
        <<AtLeast(skills_score, 80), "Strong overall skills alignment">>,
        <<AtLeast(formatting_score, 90), "ATS-friendly formatting">> >>),
     weaknesses |-> Sentences(<<
        <<Below(keyword_score, 60),
          "Low keyword match - consider using more terms from job description">>,
        <<Below(hard_skills_score, 60), "Technical/hard skills section needs improvement">>,
        <<Below(soft_skills_score, 60), "Soft skills section could be stronger">>,
        <<Below(job_title_score, 60), "Job title alignment could be improved">>,
        <<Below(experience_score, 60), "Experience section could be stronger">> >>),
     missing_keywords |->
        SelectSeq(words, LAMBDA k : Len(k) > 0 /\ ~Contains(resume_text, Lower(k))),
     missing_skills |->
        SelectSeq(Get(job.required_skills),
                  LAMBDA s : ~skill_found(Strip(Lower(s)), all_resume_skills)),
     missing_hard_skills |->
        SelectSeq(Get(job.required_hard_skills), LAMBDA s : Lower(s) \notin resume_hard_skills),
     missing_soft_skills |->
        SelectSeq(Get(job.required_soft_skills), LAMBDA s : Lower(s) \notin resume_soft_skills),
     score_breakdown |->
        [keywords |-> [score |-> keyword_score, weight |-> "25%"],
         skills |-> [score |-> skills_score, weight |-> "Combined"],
         hard_skills |-> [score |-> hard_skills_score, weight |-> "20%"],
         soft_skills |-> [score |-> soft_skills_score, weight |-> "15%"],
         job_title |-> [score |-> job_title_score, weight |-> "10%"],
         experience |-> [score |-> experience_score, weight |-> "20%"],
         education |-> [score |-> education_score, weight |-> "5%"],
         formatting |-> [score |-> formatting_score, weight |-> "5%"]]]

SampleSize == 3
MaxRecommendations == 5

\* a recommendation: its fixed text and, for the two f-strings, the names joined into it
Tip(text) == [text |-> text, names |-> <<>>]

\* the advice with the skills tip ahead of the keywords tip
triggered_recommendations_swapped(resume, job, detailed_feedback) ==
    LET scores == detailed_feedback.score_breakdown
        found == Sentences(<<
            <<Len(detailed_feedback.missing_keywords) > 0,
              [text |-> "Include these important keywords: ",
               names |-> Take(detailed_feedback.missing_keywords, SampleSize)]>>,
            <<Len(detailed_feedback.missing_skills) > 0,
              [text |-> "Add these required skills if you have them: ",
               names |-> Take(detailed_feedback.missing_skills, SampleSize)]>>,
            <<Below(scores.skills.score, 70),
              Tip("Expand your skills section with relevant technical and soft skills")>>,
            <<Below(scores.keywords.score, 70),
              Tip("Optimize your resume with more keywords from the job description")>>,
            <<Below(scores.experience.score, 70),
              Tip("Highlight relevant experience using action verbs and quantifiable achievements")>>,
            <<Below(scores.education.score, 70),
              Tip("Ensure your education section clearly shows your degree and relevant coursework")>>,
            <<Below(scores.formatting.score, 80),
              Tip("Use a simple, ATS-friendly format with clear section headers")>>,
            <<Len(Get(resume.contact_info).linkedin) = 0,
              Tip("Add your LinkedIn profile URL")>> >>)
    IN  IF Len(found) = 0
        THEN <<Tip("Your resume is well-optimized for this position!")>>
        ELSE found

\* the list _generate_recommendations holds before it is cut
triggered_recommendations(resume, job, detailed_feedback) ==
    LET scores == detailed_feedback.score_breakdown
        found == Sentences(<<
            <<Len(detailed_feedback.missing_keywords) > 0,
              [text |-> "Include these important keywords: ",
               names |-> Take(detailed_feedback.missing_keywords, SampleSize)]>>,
            <<Len(detailed_feedback.missing_skills) > 0,
              [text |-> "Add these required skills if you have them: ",
               names |-> Take(detailed_feedback.missing_skills, SampleSize)]>>,
            <<Below(scores.keywords.score, 70),
              Tip("Optimize your resume with more keywords from the job description")>>,
            <<Below(scores.skills.score, 70),
              Tip("Expand your skills section with relevant technical and soft skills")>>,
            <<Below(scores.experience.score, 70),
              Tip("Highlight relevant experience using action verbs and quantifiable achievements")>>,
            <<Below(scores.education.score, 70),
              Tip("Ensure your education section clearly shows your degree and relevant coursework")>>,
            <<Below(scores.formatting.score, 80),
              Tip("Use a simple, ATS-friendly format with clear section headers")>>,
            <<Len(Get(resume.contact_info).linkedin) = 0,
              Tip("Add your LinkedIn profile URL")>> >>)
    IN  IF Len(found) = 0
        THEN <<Tip("Your resume is well-optimized for this position!")>>
        ELSE found

\* _generate_recommendations without the final [:5]
_generate_recommendations_uncut(resume, job, detailed_feedback) ==
    triggered_recommendations(resume, job, detailed_feedback)

_generate_recommendations(resume, job, detailed_feedback) ==
    Take(triggered_recommendations(resume, job, detailed_feedback), MaxRecommendations)

----------------------------------------------------------------------------
(* ATSScorer.score *)

\* the weights of the scorer that has no job title component
weights_legacy ==
    [keywords |-> 25, hard_skills |-> 20, soft_skills |-> 15, job_title |-> 0,
     experience |-> 20, education |-> 10, formatting |-> 10]

\* weights of score(), in percent
weights ==
    [keywords |-> 10, hard_skills |-> 30, soft_skills |-> 20, job_title |-> 10,
     experience |-> 20, education |-> 5, formatting |-> 5]

Pct(score, w) == RMul(score, Rat(w, 100))

\* the weighted sum of score(), in the order the code adds
weighted_sum(k, h, s, t, x, e, f) ==
    RAdd(RAdd(RAdd(RAdd(RAdd(RAdd(Pct(k, weights.keywords), Pct(h, weights.hard_skills)),
                             Pct(s, weights.soft_skills)), Pct(t, weights.job_title)),
                   Pct(x, weights.experience)), Pct(e, weights.education)),
         Pct(f, weights.formatting))

\* score() dereferences a None: .lower(), .get() or iteration raises
Raises(resume, job) ==
    \/ IsNone(resume.raw_text)
    \/ IsNone(resume.hard_skills) \/ IsNone(resume.soft_skills) \/ IsNone(resume.skills)
    \/ IsNone(resume.contact_info)
    \/ IsNone(job.required_hard_skills) \/ IsNone(job.preferred_hard_skills)
    \/ IsNone(job.all_hard_skills)
    \/ IsNone(job.required_soft_skills) \/ IsNone(job.preferred_soft_skills)
    \/ IsNone(job.all_soft_skills)
    \/ IsNone(job.required_skills)
    \/ IsNone(job.job_title)
    \/ IsNone(job.experience_required)
    \/ IsNone(job.education_required)

\* the outcome of the body of score(): an ATSScore, or the exception that left it
score_body(resume, job) ==
    IF Raises(resume, job) THEN [status |-> "raised"]
    ELSE
    LET keyword_score == _calculate_keyword_score(resume, job)
        hard_skills_score == _calculate_hard_skills_score(resume, job)
        soft_skills_score == _calculate_soft_skills_score(resume, job)
        job_title_score == _calculate_job_title_score(resume, job)
        skills_score == RAdd(RMul(hard_skills_score, Rat(7, 10)), RMul(soft_skills_score, Rat(3, 10)))
        experience_score == _calculate_experience_score(resume, job)
        education_score == _calculate_education_score(resume, job)
        formatting_score == _calculate_formatting_score(resume)
        overall_score == weighted_sum(keyword_score, hard_skills_score, soft_skills_score,
                                      job_title_score, experience_score, education_score,
                                      formatting_score)
        detailed_feedback ==
            _generate_detailed_feedback(resume, job, keyword_score, skills_score,
                                        hard_skills_score, soft_skills_score, job_title_score,
                                        experience_score, education_score, formatting_score)
    IN  [status |-> "returned",
         overall_score |-> Round2(overall_score),
         keyword_score |-> Round2(keyword_score),
         skills_score |-> Round2(skills_score),
         hard_skills_score |-> Round2(hard_skills_score),
         soft_skills_score |-> Round2(soft_skills_score),
         job_title_score |-> Round2(job_title_score),
         experience_score |-> Round2(experience_score),
         education_score |-> Round2(education_score),
         formatting_score |-> Round2(formatting_score),
         detailed_feedback |-> detailed_feedback,
         recommendations |-> _generate_recommendations(resume, job, detailed_feedback)]

\* score() with the keyword score left to the LLM matcher when the scorer has one
score_with_llm(self, resume, job) ==
    LET r == score_body(resume, job) IN
    IF self.keyword_matcher.use_llm /\ r.status = "returned"
    THEN [r EXCEPT !.keyword_score = 10000]
    ELSE r

\* ATSScorer.score(self, resume_data, job_data): no field of self is read
score(self, resume, job) == score_body(resume, job)


----------------------------------------------------------------------------
(* The re module, on the patterns the analyzers use.  Every pattern is      *)
(* compiled with IGNORECASE and written in lower case: it is matched        *)
(* against the lower-cased text.  A match state is <<position of the next   *)
(* character, the groups captured so far>>, a group <<start, end>> over the *)
(* text, end exclusive, <<0, 0>> while it has not taken part in the match.  *)

WordChars == Range(UpperChars) \cup Range(LowerChars) \cup Range(DigitChars) \cup {"_"}
LetterChars == Range(UpperChars) \cup Range(LowerChars)

\* \s, \d, \w, [^\n], . under DOTALL, [A-Z] under IGNORECASE, and the character
\* sets of the contact patterns
InClass(class, c) ==
    CASE class = "space" -> c \in WhitespaceChars
      [] class = "digit" -> c \in Range(DigitChars)
      [] class = "word" -> c \in WordChars
      [] class = "notnl" -> c # "\n"
      [] class = "any" -> TRUE
      [] class = "letter" -> c \in LetterChars
      \* [A-Za-z0-9._%+-], [A-Za-z0-9.-], [A-Z|a-z], [-.\s], [\w-]
      [] class = "email_name" ->
            c \in LetterChars \cup Range(DigitChars) \cup {".", "_", "%", "+", "-"}
      [] class = "email_host" -> c \in LetterChars \cup Range(DigitChars) \cup {".", "-"}
      [] class = "email_end" -> c \in LetterChars \cup {"|"}
      [] class = "phone_sep" -> c \in WhitespaceChars \cup {"-", "."}
      [] class = "word_dash" -> c \in WordChars \cup {"-"}

Lit(s) == [type |-> "lit", s |-> s]
Greedy(class, min) == [type |-> "run", class |-> class, min |-> min, greedy |-> TRUE]
Lazy(class, min) == [type |-> "run", class |-> class, min |-> min, greedy |-> FALSE]
Alt(rs) == [type |-> "alt", rs |-> rs]
Cat(rs) == [type |-> "cat", rs |-> rs]
Rep(r, max) == [type |-> "rep", r |-> r, max |-> max]
Opt(r) == Rep(r, 1)
Grp(n, r) == [type |-> "grp", n |-> n, r |-> r]
WordB == [type |-> "wordb"]
Bol == [type |-> "bol"]
\* one character of a class
One(class) == [type |-> "one", class |-> class]
\* ^ without MULTILINE, $ without MULTILINE, \Z
Start == [type |-> "start"]
Eos == [type |-> "eos"]
End == [type |-> "end"]

\* (?:a|b|c) over literals
Words(ws) == Alt([i \in DOMAIN ws |-> Lit(ws[i])])
\* \b(?:a|b|c)\b
Bounded(r) == Cat(<<WordB, r, WordB>>)

NoGroups == <<<<0, 0>>, <<0, 0>>>>

RECURSIVE Flatten(_)
Flatten(ss) == IF Len(ss) = 0 THEN <<>> ELSE Head(ss) \o Flatten(Tail(ss))

\* \b at position p of t: a word character on one side only
AtWordBoundary(t, p) ==
    (p > 1 /\ t[p - 1] \in WordChars) # (p <= Len(t) /\ t[p] \in WordChars)

\* the length of the longest run of class characters of t from position p
RunLength(class, t, p) ==
    (CHOOSE q \in p..(Len(t) + 1) :
        /\ q = Len(t) + 1 \/ ~InClass(class, t[q])
        /\ \A x \in p..(q - 1) : InClass(class, t[x])) - p

RECURSIVE Run(_, _, _)
\* the states re can leave off in when it starts in state m on the text t, in the
\* order in which the backtracking matcher tries them
Run(re, t, m) ==
    CASE re.type = "lit" ->
            IF m[1] + Len(re.s) - 1 <= Len(t) /\ (Len(re.s) = 0 \/ t[m[1]] = re.s[1])
               /\ SubSeq(t, m[1], m[1] + Len(re.s) - 1) = re.s
            THEN <<<<m[1] + Len(re.s), m[2]>>>>
            ELSE <<>>
      [] re.type = "run" ->
            LET most == RunLength(re.class, t, m[1])
                count == most - re.min + 1
            IN  IF most < re.min THEN <<>>
                ELSE [k \in 1..count |->
                         <<m[1] + (IF re.greedy THEN most - k + 1 ELSE re.min + k - 1), m[2]>>]
                     \o <<>>
      [] re.type = "alt" ->
            Flatten([i \in DOMAIN re.rs |-> Run(re.rs[i], t, m)])
      [] re.type = "cat" ->
            IF Len(re.rs) = 0 THEN <<m>>
            ELSE LET first == Run(re.rs[1], t, m)
                 IN  Flatten([i \in DOMAIN first |-> Run(Cat(Tail(re.rs)), t, first[i])])
      [] re.type = "rep" ->
            IF re.max = 0 THEN <<m>>
            ELSE LET first == Run(re.r, t, m)
                 IN  Flatten([i \in DOMAIN first |-> Run(Rep(re.r, re.max - 1), t, first[i])])
                     \o <<m>>
      [] re.type = "grp" ->
            LET inner == Run(re.r, t, m)
            IN  [i \in DOMAIN inner |->
                    <<inner[i][1], [inner[i][2] EXCEPT ![re.n] = <<m[1], inner[i][1]>>]>>]
                \o <<>>
      [] re.type = "wordb" -> IF AtWordBoundary(t, m[1]) THEN <<m>> ELSE <<>>
      [] re.type = "bol" -> IF m[1] = 1 \/ t[m[1] - 1] = "\n" THEN <<m>> ELSE <<>>
      [] re.type = "one" ->
            IF m[1] <= Len(t) /\ InClass(re.class, t[m[1]]) THEN <<<<m[1] + 1, m[2]>>>> ELSE <<>>
      [] re.type = "start" -> IF m[1] = 1 THEN <<m>> ELSE <<>>
      [] re.type = "eos" ->
            IF m[1] = Len(t) + 1 \/ (m[1] = Len(t) /\ t[m[1]] = "\n") THEN <<m>> ELSE <<>>
      [] re.type = "end" -> IF m[1] = Len(t) + 1 THEN <<m>> ELSE <<>>

\* the match of re that starts at each position of the lower-cased text:
\* <<>> where there is none, <<its final state>> where there is one
MatchesAt(re, text) ==
    With(Lower(text), LAMBDA t :
        [p \in 1..(Len(t) + 1) |->
            With(Run(re, t, <<p, NoGroups>>), LAMBDA found : Take(found, 1))] \o <<>>)

\* re.search(pattern, text, re.IGNORECASE) is not None
Matches(re, text) ==
    With(Lower(text), LAMBDA t : \E p \in 1..(Len(t) + 1) : Run(re, t, <<p, NoGroups>>) # <<>>)

RECURSIVE NextMatches(_, _)
\* the matches a left-to-right scan takes from position from on
NextMatches(at, from) ==
    LET starts == {p \in DOMAIN at : p >= from /\ at[p] # <<>>}
    IN  IF starts = {} THEN <<>>
        ELSE LET p == CHOOSE q \in starts : \A x \in starts : q <= x
                 end == at[p][1][1]
             IN  <<[start |-> p, end |-> end, groups |-> at[p][1][2]]>>
                 \o NextMatches(at, IF end = p THEN p + 1 ELSE end)

\* the non-overlapping matches of re.finditer(pattern, text, re.IGNORECASE)
FindIter(re, text) == With(MatchesAt(re, text), LAMBDA at : NextMatches(at, 1))

\* re.findall for a pattern without a group: the matched pieces of text
FindAll(re, text) ==
    With(FindIter(re, text), LAMBDA found :
        [i \in DOMAIN found |-> SubSeq(text, found[i].start, found[i].end - 1)])

\* the piece of text a group captured, '' when it took no part in the match
GroupText(text, g) == IF g = <<0, 0>> THEN <<>> ELSE SubSeq(text, g[1], g[2] - 1)

\* re.findall for a pattern with one group: what the group captured in each match
FindAllGroup(re, text) ==
    With(FindIter(re, text), LAMBDA found :
        [i \in DOMAIN found |-> GroupText(text, found[i].groups[1])])

\* re.split for a pattern without a group that matches no empty string: the
\* pieces of text between the matches
Split(re, text) ==
    With(FindIter(re, text), LAMBDA found :
        [i \in 1..(Len(found) + 1) |->
            SubSeq(text, IF i = 1 THEN 1 ELSE found[i - 1].end,
                         IF i = Len(found) + 1 THEN Len(text) ELSE found[i].start - 1)] \o <<>>)

\* re.sub(pattern, '', text, flags=re.IGNORECASE) for a pattern that starts with ^:
\* it matches at the start of text or nowhere
RemoveAtStart(re, text) ==
    With(Run(re, Lower(text), <<1, NoGroups>>), LAMBDA found :
        IF found = <<>> THEN text ELSE SubSeq(text, found[1][1], Len(text)))

----------------------------------------------------------------------------
(* SkillCategorizer *)

\* _load_hard_skills
hard_skills ==
    <<<<"P","y","t","h","o","n">>, <<"J","a","v","a">>, <<"J","a","v","a","S","c","r","i","p","t">>, <<"T","y","p","e","S","c","r","i","p","t">>, <<"C","+","+">>, <<"C","#">>, <<"C">>,
      <<"R","u","b","y">>, <<"P","H","P">>, <<"S","w","i","f","t">>, <<"K","o","t","l","i","n">>, <<"G","o">>, <<"R","u","s","t">>, <<"S","c","a","l","a">>, <<"R">>,
      <<"M","A","T","L","A","B">>, <<"P","e","r","l">>, <<"S","h","e","l","l">>, <<"B","a","s","h">>, <<"P","o","w","e","r","S","h","e","l","l">>, <<"H","T","M","L">>, <<"C","S","S">>,
      <<"S","A","S","S">>, <<"S","C","S","S">>, <<"L","E","S","S">>, <<"B","o","o","t","s","t","r","a","p">>, <<"T","a","i","l","w","i","n","d"," ","C","S","S">>, <<"j","Q","u","e","r","y">>, <<"R","e","a","c","t">>,
      <<"A","n","g","u","l","a","r">>, <<"V","u","e",".","j","s">>, <<"S","v","e","l","t","e">>, <<"N","e","x","t",".","j","s">>, <<"N","u","x","t",".","j","s">>, <<"E","m","b","e","r",".","j","s">>,
      <<"N","o","d","e",".","j","s">>, <<"E","x","p","r","e","s","s",".","j","s">>, <<"F","a","s","t","A","P","I">>, <<"D","j","a","n","g","o">>, <<"F","l","a","s","k">>, <<"S","p","r","i","n","g"," ","B","o","o","t">>,
      <<"L","a","r","a","v","e","l">>, <<"S","Q","L">>, <<"M","y","S","Q","L">>, <<"P","o","s","t","g","r","e","S","Q","L">>, <<"S","Q","L","i","t","e">>, <<"M","o","n","g","o","D","B">>, <<"R","e","d","i","s">>,
      <<"E","l","a","s","t","i","c","s","e","a","r","c","h">>, <<"C","a","s","s","a","n","d","r","a">>, <<"N","e","o","4","j">>, <<"D","y","n","a","m","o","D","B">>, <<"O","r","a","c","l","e">>,
      <<"S","Q","L"," ","S","e","r","v","e","r">>, <<"M","a","r","i","a","D","B">>, <<"A","W","S">>, <<"A","z","u","r","e">>, <<"G","o","o","g","l","e"," ","C","l","o","u","d"," ","P","l","a","t","f","o","r","m">>, <<"G","C","P">>,
      <<"D","o","c","k","e","r">>, <<"K","u","b","e","r","n","e","t","e","s">>, <<"J","e","n","k","i","n","s">>, <<"G","i","t","L","a","b"," ","C","I">>, <<"G","i","t","H","u","b"," ","A","c","t","i","o","n","s">>,
      <<"T","e","r","r","a","f","o","r","m">>, <<"A","n","s","i","b","l","e">>, <<"C","h","e","f">>, <<"P","u","p","p","e","t">>, <<"C","l","o","u","d","F","o","r","m","a","t","i","o","n">>, <<"S","e","r","v","e","r","l","e","s","s">>,
      <<"L","a","m","b","d","a">>, <<"E","C","2">>, <<"S","3">>, <<"R","D","S">>, <<"M","a","c","h","i","n","e"," ","L","e","a","r","n","i","n","g">>, <<"D","e","e","p"," ","L","e","a","r","n","i","n","g">>,
      <<"N","e","u","r","a","l"," ","N","e","t","w","o","r","k","s">>, <<"T","e","n","s","o","r","F","l","o","w">>, <<"P","y","T","o","r","c","h">>, <<"S","c","i","k","i","t","-","l","e","a","r","n">>, <<"P","a","n","d","a","s">>,
      <<"N","u","m","P","y">>, <<"M","a","t","p","l","o","t","l","i","b">>, <<"S","e","a","b","o","r","n">>, <<"J","u","p","y","t","e","r">>, <<"D","a","t","a"," ","A","n","a","l","y","s","i","s">>,
      <<"D","a","t","a"," ","V","i","s","u","a","l","i","z","a","t","i","o","n">>, <<"S","t","a","t","i","s","t","i","c","s">>, <<"B","i","g"," ","D","a","t","a">>, <<"H","a","d","o","o","p">>, <<"S","p","a","r","k">>,
      <<"i","O","S"," ","D","e","v","e","l","o","p","m","e","n","t">>, <<"A","n","d","r","o","i","d"," ","D","e","v","e","l","o","p","m","e","n","t">>, <<"R","e","a","c","t"," ","N","a","t","i","v","e">>, <<"F","l","u","t","t","e","r">>,
      <<"X","a","m","a","r","i","n">>, <<"S","w","i","f","t","U","I">>, <<"U","I","K","i","t">>, <<"A","n","d","r","o","i","d"," ","S","t","u","d","i","o">>, <<"X","c","o","d","e">>, <<"G","i","t">>,
      <<"G","i","t","H","u","b">>, <<"G","i","t","L","a","b">>, <<"B","i","t","b","u","c","k","e","t">>, <<"S","V","N">>, <<"M","e","r","c","u","r","i","a","l">>, <<"J","I","R","A">>,
      <<"C","o","n","f","l","u","e","n","c","e">>, <<"S","l","a","c","k">>, <<"T","r","e","l","l","o">>, <<"A","s","a","n","a">>, <<"U","n","i","t"," ","T","e","s","t","i","n","g">>,
      <<"I","n","t","e","g","r","a","t","i","o","n"," ","T","e","s","t","i","n","g">>, <<"T","e","s","t","-","D","r","i","v","e","n"," ","D","e","v","e","l","o","p","m","e","n","t">>, <<"T","D","D">>, <<"J","e","s","t">>, <<"p","y","t","e","s","t">>,
      <<"J","U","n","i","t">>, <<"S","e","l","e","n","i","u","m">>, <<"C","y","p","r","e","s","s">>, <<"P","o","s","t","m","a","n">>, <<"A","d","o","b","e"," ","P","h","o","t","o","s","h","o","p">>,
      <<"A","d","o","b","e"," ","I","l","l","u","s","t","r","a","t","o","r">>, <<"A","d","o","b","e"," ","I","n","D","e","s","i","g","n">>, <<"F","i","g","m","a">>, <<"S","k","e","t","c","h">>, <<"A","d","o","b","e"," ","X","D">>,
      <<"C","a","n","v","a">>, <<"G","I","M","P">>, <<"B","l","e","n","d","e","r">>, <<"3","D"," ","M","o","d","e","l","i","n","g">>, <<"L","i","n","u","x">>, <<"U","n","i","x">>, <<"W","i","n","d","o","w","s">>,
      <<"m","a","c","O","S">>, <<"U","b","u","n","t","u">>, <<"C","e","n","t","O","S">>, <<"R","e","d"," ","H","a","t">>, <<"N","e","t","w","o","r","k"," ","S","e","c","u","r","i","t","y">>,
      <<"C","y","b","e","r","s","e","c","u","r","i","t","y">>, <<"F","i","r","e","w","a","l","l">>, <<"V","P","N">>, <<"S","S","L","/","T","L","S">>, <<"P","e","n","e","t","r","a","t","i","o","n"," ","T","e","s","t","i","n","g">>,
      <<"V","u","l","n","e","r","a","b","i","l","i","t","y"," ","A","s","s","e","s","s","m","e","n","t">>, <<"C","I","S","S","P">>, <<"C","I","S","A">>, <<"M","i","c","r","o","s","o","f","t"," ","E","x","c","e","l">>,
      <<"G","o","o","g","l","e"," ","S","h","e","e","t","s">>, <<"P","o","w","e","r"," ","B","I">>, <<"T","a","b","l","e","a","u">>, <<"L","o","o","k","e","r">>, <<"G","o","o","g","l","e"," ","A","n","a","l","y","t","i","c","s">>,
      <<"S","Q","L"," ","A","n","a","l","y","t","i","c","s">>, <<"B","u","s","i","n","e","s","s"," ","I","n","t","e","l","l","i","g","e","n","c","e">>, <<"M","i","c","r","o","s","o","f","t"," ","P","r","o","j","e","c","t">>, <<"S","m","a","r","t","s","h","e","e","t">>,
      <<"M","o","n","d","a","y",".","c","o","m">>, <<"N","o","t","i","o","n">>, <<"R","E","S","T"," ","A","P","I">>, <<"G","r","a","p","h","Q","L">>, <<"M","i","c","r","o","s","e","r","v","i","c","e","s">>,
      <<"B","l","o","c","k","c","h","a","i","n">>, <<"I","o","T">>, <<"A","r","t","i","f","i","c","i","a","l"," ","I","n","t","e","l","l","i","g","e","n","c","e">>, <<"C","o","m","p","u","t","e","r"," ","V","i","s","i","o","n">>,
      <<"N","a","t","u","r","a","l"," ","L","a","n","g","u","a","g","e"," ","P","r","o","c","e","s","s","i","n","g">>, <<"A","g","i","l","e">>, <<"S","c","r","u","m">>, <<"K","a","n","b","a","n">>, <<"D","e","v","O","p","s">>,
      <<"C","I","/","C","D">>>>

\* _load_soft_skills
soft_skills ==
    <<<<"C","o","m","m","u","n","i","c","a","t","i","o","n">>, <<"V","e","r","b","a","l"," ","C","o","m","m","u","n","i","c","a","t","i","o","n">>, <<"W","r","i","t","t","e","n"," ","C","o","m","m","u","n","i","c","a","t","i","o","n">>,
      <<"P","u","b","l","i","c"," ","S","p","e","a","k","i","n","g">>, <<"P","r","e","s","e","n","t","a","t","i","o","n"," ","S","k","i","l","l","s">>, <<"A","c","t","i","v","e"," ","L","i","s","t","e","n","i","n","g">>,
      <<"I","n","t","e","r","p","e","r","s","o","n","a","l"," ","S","k","i","l","l","s">>, <<"C","r","o","s","s","-","f","u","n","c","t","i","o","n","a","l"," ","C","o","m","m","u","n","i","c","a","t","i","o","n">>, <<"L","e","a","d","e","r","s","h","i","p">>,
      <<"T","e","a","m"," ","L","e","a","d","e","r","s","h","i","p">>, <<"P","r","o","j","e","c","t"," ","L","e","a","d","e","r","s","h","i","p">>, <<"M","e","n","t","o","r","i","n","g">>, <<"C","o","a","c","h","i","n","g">>,
      <<"D","e","l","e","g","a","t","i","o","n">>, <<"D","e","c","i","s","i","o","n"," ","M","a","k","i","n","g">>, <<"S","t","r","a","t","e","g","i","c"," ","T","h","i","n","k","i","n","g">>, <<"V","i","s","i","o","n"," ","S","e","t","t","i","n","g">>,
      <<"C","h","a","n","g","e"," ","M","a","n","a","g","e","m","e","n","t">>, <<"T","e","a","m","w","o","r","k">>, <<"C","o","l","l","a","b","o","r","a","t","i","o","n">>, <<"T","e","a","m"," ","P","l","a","y","e","r">>,
      <<"C","r","o","s","s","-","f","u","n","c","t","i","o","n","a","l"," ","C","o","l","l","a","b","o","r","a","t","i","o","n">>, <<"S","t","a","k","e","h","o","l","d","e","r"," ","M","a","n","a","g","e","m","e","n","t">>,
      <<"R","e","l","a","t","i","o","n","s","h","i","p"," ","B","u","i","l","d","i","n","g">>, <<"N","e","t","w","o","r","k","i","n","g">>, <<"P","r","o","b","l","e","m"," ","S","o","l","v","i","n","g">>,
      <<"A","n","a","l","y","t","i","c","a","l"," ","T","h","i","n","k","i","n","g">>, <<"C","r","i","t","i","c","a","l"," ","T","h","i","n","k","i","n","g">>, <<"C","r","e","a","t","i","v","e"," ","P","r","o","b","l","e","m"," ","S","o","l","v","i","n","g">>,
      <<"T","r","o","u","b","l","e","s","h","o","o","t","i","n","g">>, <<"R","o","o","t"," ","C","a","u","s","e"," ","A","n","a","l","y","s","i","s">>, <<"S","y","s","t","e","m","s"," ","T","h","i","n","k","i","n","g">>, <<"I","n","n","o","v","a","t","i","o","n">>,
      <<"C","r","e","a","t","i","v","i","t","y">>, <<"A","d","a","p","t","a","b","i","l","i","t","y">>, <<"F","l","e","x","i","b","i","l","i","t","y">>, <<"L","e","a","r","n","i","n","g"," ","A","g","i","l","i","t","y">>,
      <<"C","o","n","t","i","n","u","o","u","s"," ","L","e","a","r","n","i","n","g">>, <<"G","r","o","w","t","h"," ","M","i","n","d","s","e","t">>, <<"R","e","s","i","l","i","e","n","c","e">>, <<"C","h","a","n","g","e"," ","A","d","a","p","t","a","t","i","o","n">>,
      <<"T","i","m","e"," ","M","a","n","a","g","e","m","e","n","t">>, <<"P","r","o","j","e","c","t"," ","M","a","n","a","g","e","m","e","n","t">>, <<"O","r","g","a","n","i","z","a","t","i","o","n">>, <<"P","r","i","o","r","i","t","i","z","a","t","i","o","n">>,
      <<"P","l","a","n","n","i","n","g">>, <<"M","u","l","t","i","t","a","s","k","i","n","g">>, <<"A","t","t","e","n","t","i","o","n"," ","t","o"," ","D","e","t","a","i","l">>, <<"C","u","s","t","o","m","e","r"," ","S","e","r","v","i","c","e">>,
      <<"C","u","s","t","o","m","e","r"," ","F","o","c","u","s">>, <<"C","l","i","e","n","t"," ","R","e","l","a","t","i","o","n","s">>, <<"C","u","s","t","o","m","e","r"," ","S","u","c","c","e","s","s">>,
      <<"A","c","c","o","u","n","t"," ","M","a","n","a","g","e","m","e","n","t">>, <<"W","o","r","k"," ","E","t","h","i","c">>, <<"S","e","l","f","-","m","o","t","i","v","a","t","e","d">>, <<"I","n","i","t","i","a","t","i","v","e">>,
      <<"R","e","l","i","a","b","i","l","i","t","y">>, <<"I","n","t","e","g","r","i","t","y">>, <<"P","r","o","f","e","s","s","i","o","n","a","l","i","s","m">>, <<"A","c","c","o","u","n","t","a","b","i","l","i","t","y">>, <<"H","o","n","e","s","t","y">>,
      <<"E","m","o","t","i","o","n","a","l"," ","I","n","t","e","l","l","i","g","e","n","c","e">>, <<"E","m","p","a","t","h","y">>, <<"S","e","l","f","-","a","w","a","r","e","n","e","s","s">>, <<"S","o","c","i","a","l"," ","A","w","a","r","e","n","e","s","s">>,
      <<"C","o","n","f","l","i","c","t"," ","R","e","s","o","l","u","t","i","o","n">>, <<"B","u","s","i","n","e","s","s"," ","A","c","u","m","e","n">>, <<"S","t","r","a","t","e","g","i","c"," ","P","l","a","n","n","i","n","g">>,
      <<"F","i","n","a","n","c","i","a","l"," ","A","c","u","m","e","n">>, <<"M","a","r","k","e","t"," ","R","e","s","e","a","r","c","h">>, <<"C","o","m","p","e","t","i","t","i","v","e"," ","A","n","a","l","y","s","i","s">>,
      <<"P","r","o","c","e","s","s"," ","I","m","p","r","o","v","e","m","e","n","t">>, <<"S","a","l","e","s">>, <<"M","a","r","k","e","t","i","n","g">>, <<"N","e","g","o","t","i","a","t","i","o","n">>, <<"P","e","r","s","u","a","s","i","o","n">>,
      <<"R","e","l","a","t","i","o","n","s","h","i","p"," ","S","e","l","l","i","n","g">>, <<"L","e","a","d"," ","G","e","n","e","r","a","t","i","o","n">>>>

hard_skills_lower == {Lower(hard_skills[i]) : i \in DOMAIN hard_skills}
soft_skills_lower == {Lower(soft_skills[i]) : i \in DOMAIN soft_skills}

\* _compile_hard_skill_patterns
hard_skill_patterns ==
    <<Cat(<<WordB, Words(<<<<"p","r","o","g","r","a","m","m","i","n","g">>, <<"c","o","d","i","n","g">>, <<"d","e","v","e","l","o","p","m","e","n","t">>>>), WordB>>),
      Cat(<<WordB, Words(<<<<"d","a","t","a","b","a","s","e">>, <<"s","q","l">>, <<"n","o","s","q","l">>>>), WordB>>),
      Cat(<<WordB, Words(<<<<"f","r","a","m","e","w","o","r","k">>, <<"l","i","b","r","a","r","y">>, <<"a","p","i">>>>), WordB>>),
      Cat(<<WordB, Words(<<<<"s","o","f","t","w","a","r","e">>, <<"h","a","r","d","w","a","r","e">>, <<"t","e","c","h","n","i","c","a","l">>>>), WordB>>),
      Cat(<<WordB, Words(<<<<"c","l","o","u","d">>, <<"d","e","v","o","p","s">>, <<"d","e","p","l","o","y","m","e","n","t">>>>), WordB>>),
      Cat(<<WordB, Words(<<<<"t","e","s","t","i","n","g">>, <<"d","e","b","u","g","g","i","n","g">>, <<"q","a">>>>), WordB>>),
      Cat(<<WordB, Words(<<<<"m","o","b","i","l","e">>, <<"w","e","b">>, <<"f","r","o","n","t","e","n","d">>, <<"b","a","c","k","e","n","d">>>>), WordB>>),
      Cat(<<WordB, Words(<<<<"m","a","c","h","i","n","e"," ","l","e","a","r","n","i","n","g">>, <<"a","i">>, <<"d","a","t","a"," ","s","c","i","e","n","c","e">>>>), WordB>>),
      Cat(<<WordB, Words(<<<<"s","e","c","u","r","i","t","y">>, <<"n","e","t","w","o","r","k">>, <<"i","n","f","r","a","s","t","r","u","c","t","u","r","e">>>>), WordB>>),
      Cat(<<WordB, Words(<<<<"v","e","r","s","i","o","n"," ","c","o","n","t","r","o","l">>, <<"g","i","t">>>>), WordB>>)>>

\* _compile_soft_skill_patterns
soft_skill_patterns ==
    <<Cat(<<WordB, Words(<<<<"c","o","m","m","u","n","i","c","a","t","i","o","n">>, <<"v","e","r","b","a","l">>, <<"w","r","i","t","t","e","n">>>>), Greedy("space", 1), Lit(<<"s","k","i","l","l">>), Opt(Lit(<<"s">>)), WordB>>),
      Cat(<<WordB, Words(<<<<"l","e","a","d","e","r","s","h","i","p">>, <<"m","a","n","a","g","e","m","e","n","t">>>>), Greedy("space", 1), Alt(<<Lit(<<"e","x","p","e","r","i","e","n","c","e">>), Cat(<<Lit(<<"s","k","i","l","l">>), Opt(Lit(<<"s">>))>>)>>), WordB>>),
      Cat(<<WordB, Words(<<<<"t","e","a","m">>, <<"c","o","l","l","a","b","o","r","a","t","i","o","n">>, <<"t","e","a","m","w","o","r","k">>>>), Greedy("space", 1), Alt(<<Cat(<<Lit(<<"s","k","i","l","l">>), Opt(Lit(<<"s">>))>>), Lit(<<"e","x","p","e","r","i","e","n","c","e">>)>>), WordB>>),
      Cat(<<WordB, Words(<<<<"p","r","o","b","l","e","m">>, <<"a","n","a","l","y","t","i","c","a","l">>>>), Greedy("space", 1), Words(<<<<"s","o","l","v","i","n","g">>, <<"t","h","i","n","k","i","n","g">>>>), WordB>>),
      Cat(<<WordB, Words(<<<<"t","i","m","e">>, <<"p","r","o","j","e","c","t">>>>), Greedy("space", 1), Lit(<<"m","a","n","a","g","e","m","e","n","t">>), WordB>>),
      Cat(<<WordB, Words(<<<<"c","u","s","t","o","m","e","r">>, <<"c","l","i","e","n","t">>>>), Greedy("space", 1), Words(<<<<"s","e","r","v","i","c","e">>, <<"r","e","l","a","t","i","o","n","s">>, <<"f","o","c","u","s">>>>), WordB>>),
      Cat(<<WordB, Words(<<<<"i","n","t","e","r","p","e","r","s","o","n","a","l">>, <<"s","o","c","i","a","l">>>>), Greedy("space", 1), Lit(<<"s","k","i","l","l">>), Opt(Lit(<<"s">>)), WordB>>),
      Cat(<<WordB, Words(<<<<"p","r","e","s","e","n","t","a","t","i","o","n">>, <<"p","u","b","l","i","c">>>>), Greedy("space", 1), Alt(<<Cat(<<Lit(<<"s","k","i","l","l">>), Opt(Lit(<<"s">>))>>), Lit(<<"s","p","e","a","k","i","n","g">>)>>), WordB>>),
      Cat(<<WordB, Words(<<<<"c","r","e","a","t","i","v","e">>, <<"i","n","n","o","v","a","t","i","o","n">>, <<"c","r","e","a","t","i","v","i","t","y">>>>), WordB>>),
      Cat(<<WordB, Words(<<<<"a","d","a","p","t","a","b","i","l","i","t","y">>, <<"f","l","e","x","i","b","i","l","i","t","y">>, <<"r","e","s","i","l","i","e","n","c","e">>>>), WordB>>)>>

hard_indicators ==
    <<<<"p","r","o","g","r","a","m","m","i","n","g">>, <<"d","e","v","e","l","o","p","m","e","n","t">>, <<"t","e","c","h","n","i","c","a","l">>, <<"s","o","f","t","w","a","r","e">>, <<"d","a","t","a","b","a","s","e">>,
      <<"f","r","a","m","e","w","o","r","k">>, <<"l","a","n","g","u","a","g","e">>>>

soft_indicators ==
    <<<<"c","o","m","m","u","n","i","c","a","t","i","o","n">>, <<"l","e","a","d","e","r","s","h","i","p">>, <<"t","e","a","m","w","o","r","k">>, <<"m","a","n","a","g","e","m","e","n","t">>, <<"c","o","l","l","a","b","o","r","a","t","i","o","n">>,
      <<"p","r","o","b","l","e","m"," ","s","o","l","v","i","n","g">>>>

\* any(re.search(pattern, text, re.IGNORECASE) for pattern in patterns)
MatchesAny(patterns, text) == \E i \in DOMAIN patterns : Matches(patterns[i], text)

\* any(indicator in skill for indicator in indicators)
ContainsAny(skill, indicators) == \E i \in DOMAIN indicators : Contains(skill, indicators[i])

\* _classify_skill with the soft patterns tried before the hard patterns
_classify_skill_soft_patterns_first(skill) ==
    IF skill \in hard_skills_lower THEN "hard"
    ELSE IF skill \in soft_skills_lower THEN "soft"
    ELSE IF MatchesAny(soft_skill_patterns, skill) THEN "soft"
    ELSE IF MatchesAny(hard_skill_patterns, skill) THEN "hard"
    ELSE IF ContainsAny(skill, hard_indicators) THEN "hard"
    ELSE IF ContainsAny(skill, soft_indicators) THEN "soft"
    ELSE "unknown"

_classify_skill(skill) ==
    IF skill \in hard_skills_lower THEN "hard"
    ELSE IF skill \in soft_skills_lower THEN "soft"
    ELSE IF MatchesAny(hard_skill_patterns, skill) THEN "hard"
    ELSE IF MatchesAny(soft_skill_patterns, skill) THEN "soft"
    ELSE IF ContainsAny(skill, hard_indicators) THEN "hard"
    ELSE IF ContainsAny(skill, soft_indicators) THEN "soft"
    ELSE "unknown"

categorize_skills(skills) ==
    With([i \in DOMAIN skills |-> _classify_skill(Strip(Lower(skills[i])))] \o <<>>,
         LAMBDA category :
            LET of(kind) ==
                    LET kept == SelectSeq([i \in DOMAIN skills |-> <<category[i], skills[i]>>],
                                          LAMBDA e : e[1] = kind)
                    IN  [i \in DOMAIN kept |-> kept[i][2]]
            IN  [hard_skills |-> of("hard"), soft_skills |-> of("soft"),
                 uncategorized |-> of("unknown")])

\* _skill_in_text with the skill searched as a plain substring
_skill_in_text_substring(skill, text) == Contains(Lower(text), Lower(skill))

\* re.search(r'\b' + re.escape(skill.lower()) + r'\b', text, re.IGNORECASE): the
\* lower-cased skill, a literal, with a \b before it and a \b after it
_skill_in_text(skill, text) ==
    \E k \in {Lower(skill)}, t \in {Lower(text)} :
        \E p \in 1..(Len(t) + 1 - Len(k)) :
            /\ Len(k) = 0 \/ t[p] = k[1]
            /\ SubSeq(t, p, p + Len(k) - 1) = k
            /\ AtWordBoundary(t, p)
            /\ AtWordBoundary(t, p + Len(k))

\* list(dict.fromkeys(items))
Unique(items) ==
    SelectSeq([i \in DOMAIN items |-> <<i, items[i]>>],
              LAMBDA e : \A j \in 1..(e[1] - 1) : items[j] # e[2])

extract_categorized_skills_from_text(text) ==
    With(Lower(text), LAMBDA text_lower :
        LET found_hard_skills ==
                SelectSeq(hard_skills, LAMBDA skill : _skill_in_text(skill, text_lower))
            matches ==
                Flatten([i \in DOMAIN soft_skill_patterns |->
                            FindAll(soft_skill_patterns[i], text_lower)])
            found_soft_skills == [i \in DOMAIN matches |-> Strip(matches[i])]
            hard == Unique(found_hard_skills)
            soft == Unique(found_soft_skills)
        IN  [hard_skills |-> [i \in DOMAIN hard |-> hard[i][2]],
             soft_skills |-> [i \in DOMAIN soft |-> soft[i][2]]])

----------------------------------------------------------------------------
(* KeywordExtractor *)

\* _load_stop_words
stop_words ==
    {<<"t","h","e">>, <<"b","e">>, <<"t","o">>, <<"o","f">>, <<"a","n","d">>, <<"a">>, <<"i","n">>, <<"t","h","a","t">>, <<"h","a","v","e">>, <<"i">>,
      <<"i","t">>, <<"f","o","r">>, <<"n","o","t">>, <<"o","n">>, <<"w","i","t","h">>, <<"h","e">>, <<"a","s">>, <<"y","o","u">>, <<"d","o">>, <<"a","t">>,
      <<"t","h","i","s">>, <<"b","u","t">>, <<"h","i","s">>, <<"b","y">>, <<"f","r","o","m">>, <<"t","h","e","y">>, <<"w","e">>, <<"s","a","y">>, <<"h","e","r">>,
      <<"s","h","e">>, <<"o","r">>, <<"a","n">>, <<"w","i","l","l">>, <<"m","y">>, <<"o","n","e">>, <<"a","l","l">>, <<"w","o","u","l","d">>, <<"t","h","e","r","e">>,
      <<"t","h","e","i","r">>, <<"w","h","a","t">>, <<"s","o">>, <<"u","p">>, <<"o","u","t">>, <<"i","f">>, <<"a","b","o","u","t">>, <<"w","h","o">>, <<"g","e","t">>,
      <<"w","h","i","c","h">>, <<"g","o">>, <<"m","e">>, <<"w","h","e","n">>, <<"m","a","k","e">>, <<"c","a","n">>, <<"l","i","k","e">>, <<"t","i","m","e">>, <<"n","o">>,
      <<"j","u","s","t">>, <<"h","i","m">>, <<"k","n","o","w">>, <<"t","a","k","e">>, <<"p","e","o","p","l","e">>, <<"i","n","t","o">>, <<"y","e","a","r">>, <<"y","o","u","r">>,
      <<"g","o","o","d">>, <<"s","o","m","e">>, <<"c","o","u","l","d">>, <<"t","h","e","m">>, <<"s","e","e">>, <<"o","t","h","e","r">>, <<"t","h","a","n">>, <<"t","h","e","n">>,
      <<"n","o","w">>, <<"l","o","o","k">>, <<"o","n","l","y">>, <<"c","o","m","e">>, <<"i","t","s">>, <<"o","v","e","r">>, <<"t","h","i","n","k">>, <<"a","l","s","o">>,
      <<"b","a","c","k">>, <<"a","f","t","e","r">>, <<"u","s","e">>, <<"t","w","o">>, <<"h","o","w">>, <<"o","u","r">>, <<"w","o","r","k">>, <<"f","i","r","s","t">>,
      <<"w","e","l","l">>, <<"w","a","y">>, <<"e","v","e","n">>, <<"n","e","w">>, <<"w","a","n","t">>, <<"b","e","c","a","u","s","e">>, <<"a","n","y">>, <<"t","h","e","s","e">>,
      <<"g","i","v","e">>, <<"d","a","y">>, <<"m","o","s","t">>, <<"u","s">>, <<"i","s">>, <<"a","r","e">>, <<"w","a","s">>, <<"w","e","r","e">>, <<"b","e","e","n">>,
      <<"h","a","s">>, <<"h","a","d">>, <<"m","a","y">>, <<"m","u","s","t">>, <<"s","h","a","l","l">>, <<"s","h","o","u","l","d">>}

\* phrase_patterns of _extract_phrases
phrase_patterns ==
    <<Cat(<<WordB, Words(<<<<"m","a","c","h","i","n","e"," ","l","e","a","r","n","i","n","g">>, <<"d","e","e","p"," ","l","e","a","r","n","i","n","g">>, <<"a","r","t","i","f","i","c","i","a","l"," ","i","n","t","e","l","l","i","g","e","n","c","e">>>>), WordB>>),
      Cat(<<WordB, Words(<<<<"d","a","t","a"," ","s","c","i","e","n","c","e">>, <<"d","a","t","a"," ","a","n","a","l","y","s","i","s">>, <<"d","a","t","a"," ","e","n","g","i","n","e","e","r","i","n","g">>>>), WordB>>),
      Cat(<<WordB, Words(<<<<"s","o","f","t","w","a","r","e"," ","d","e","v","e","l","o","p","m","e","n","t">>, <<"s","o","f","t","w","a","r","e"," ","e","n","g","i","n","e","e","r","i","n","g">>>>), WordB>>),
      Cat(<<WordB, Words(<<<<"p","r","o","j","e","c","t"," ","m","a","n","a","g","e","m","e","n","t">>, <<"p","r","o","d","u","c","t"," ","m","a","n","a","g","e","m","e","n","t">>>>), WordB>>),
      Cat(<<WordB, Words(<<<<"f","u","l","l"," ","s","t","a","c","k">>, <<"f","r","o","n","t"," ","e","n","d">>, <<"b","a","c","k"," ","e","n","d">>, <<"b","a","c","k","e","n","d">>, <<"f","r","o","n","t","e","n","d">>>>), WordB>>),
      Cat(<<WordB, Words(<<<<"v","e","r","s","i","o","n"," ","c","o","n","t","r","o","l">>, <<"c","o","n","t","i","n","u","o","u","s"," ","i","n","t","e","g","r","a","t","i","o","n">>, <<"c","o","n","t","i","n","u","o","u","s"," ","d","e","p","l","o","y","m","e","n","t">>>>), WordB>>),
      Cat(<<WordB, Words(<<<<"t","e","s","t"," ","d","r","i","v","e","n">>, <<"b","e","h","a","v","i","o","r"," ","d","r","i","v","e","n">>, <<"d","o","m","a","i","n"," ","d","r","i","v","e","n">>>>), WordB>>),
      Cat(<<WordB, Words(<<<<"o","b","j","e","c","t"," ","o","r","i","e","n","t","e","d">>, <<"f","u","n","c","t","i","o","n","a","l"," ","p","r","o","g","r","a","m","m","i","n","g">>>>), WordB>>),
      Cat(<<WordB, Words(<<<<"c","l","o","u","d"," ","c","o","m","p","u","t","i","n","g">>, <<"c","l","o","u","d"," ","n","a","t","i","v","e">>, <<"c","l","o","u","d"," ","a","r","c","h","i","t","e","c","t","u","r","e">>>>), WordB>>),
      Cat(<<WordB, Words(<<<<"b","e","s","t"," ","p","r","a","c","t","i","c","e","s">>, <<"d","e","s","i","g","n"," ","p","a","t","t","e","r","n","s">>, <<"c","l","e","a","n"," ","c","o","d","e">>>>), WordB>>)>>

\* the characters re.sub(r'[^\w\s\+\#]', ' ', text) keeps
TokenChars == WordChars \cup WhitespaceChars \cup {"+", "#"}

\* _tokenize that keeps every word that is not a number
_tokenize_keep_short(text) ==
    SelectSeq(SplitWs([i \in DOMAIN text |-> IF text[i] \in TokenChars THEN text[i] ELSE " "]),
              LAMBDA w : ~IsDigits(w))

_tokenize(text) ==
    SelectSeq(SplitWs([i \in DOMAIN text |-> IF text[i] \in TokenChars THEN text[i] ELSE " "]),
              LAMBDA w : Len(w) > 2 /\ ~IsDigits(w))

\* Counter(words).most_common(top_n): the distinct words with their counts, the most
\* frequent first, words of equal count in the order of their first occurrence
most_common(words, top_n) ==
    With(words, LAMBDA ws :
        LET firsts == {i \in DOMAIN ws : \A j \in 1..(i - 1) : ws[j] # ws[i]}
            count == [i \in firsts |-> Cardinality({j \in DOMAIN ws : ws[j] = ws[i]})]
            before(i, j) == count[i] > count[j] \/ (count[i] = count[j] /\ i < j)
            rank(i) == Cardinality({j \in firsts : before(j, i)}) + 1
            n == IF top_n < Cardinality(firsts) THEN top_n ELSE Cardinality(firsts)
        IN  [k \in 1..n |->
                LET i == CHOOSE x \in firsts : rank(x) = k
                IN  [keyword |-> ws[i], frequency |-> count[i]]])

\* _extract_phrases
_extract_phrases(text) ==
    With(Lower(text), LAMBDA text_lower :
        LET phrases == Flatten([i \in DOMAIN phrase_patterns |->
                                   FindAll(phrase_patterns[i], text_lower)])
            unique_phrases == Unique(phrases)
        IN  [i \in DOMAIN unique_phrases |-> unique_phrases[i][2]])

DefaultTopN == 20

\* KeywordExtractor.extract(text, top_n)
extract(text, top_n) ==
    LET words == SelectSeq(_tokenize(text), LAMBDA w : Lower(w) \notin stop_words)
    IN  [single_words |-> most_common(words, top_n), phrases |-> _extract_phrases(text)]

----------------------------------------------------------------------------
(* JobAnalyzer *)

\* required_patterns of _extract_required_skills, compiled with DOTALL
required_patterns ==
    <<Cat(<<Lit(<<"r","e","q","u","i","r","e","d"," ","s","k","i","l","l">>), Opt(Lit(<<"s">>)), Opt(Lit(<<":">>)), Grp(1, Lazy("any", 0)), Words(<<<<"p","r","e","f","e","r","r","e","d">>, <<"d","e","s","i","r","e","d">>, <<"n","i","c","e"," ","t","o"," ","h","a","v","e">>, <<"\n","\n">>>>)>>),
      Cat(<<Lit(<<"m","u","s","t"," ","h","a","v","e">>), Opt(Lit(<<":">>)), Grp(1, Lazy("any", 0)), Words(<<<<"p","r","e","f","e","r","r","e","d">>, <<"d","e","s","i","r","e","d">>, <<"n","i","c","e"," ","t","o"," ","h","a","v","e">>, <<"\n","\n">>>>)>>),
      Cat(<<Lit(<<"r","e","q","u","i","r","e","m","e","n","t">>), Opt(Lit(<<"s">>)), Opt(Lit(<<":">>)), Grp(1, Lazy("any", 0)), Words(<<<<"p","r","e","f","e","r","r","e","d">>, <<"d","e","s","i","r","e","d">>, <<"n","i","c","e"," ","t","o"," ","h","a","v","e">>, <<"\n","\n">>>>)>>),
      Cat(<<Lit(<<"q","u","a","l","i","f","i","c","a","t","i","o","n">>), Opt(Lit(<<"s">>)), Opt(Lit(<<":">>)), Grp(1, Lazy("any", 0)), Words(<<<<"p","r","e","f","e","r","r","e","d">>, <<"d","e","s","i","r","e","d">>, <<"n","i","c","e"," ","t","o"," ","h","a","v","e">>, <<"\n","\n">>>>)>>)>>

\* preferred_patterns of _extract_preferred_skills, compiled with DOTALL
preferred_patterns ==
    <<Cat(<<Lit(<<"p","r","e","f","e","r","r","e","d"," ","s","k","i","l","l">>), Opt(Lit(<<"s">>)), Opt(Lit(<<":">>)), Grp(1, Lazy("any", 0)), Alt(<<Cat(<<Lit(<<"r","e","q","u","i","r","e","m","e","n","t">>), Opt(Lit(<<"s">>))>>), Cat(<<Lit(<<"q","u","a","l","i","f","i","c","a","t","i","o","n">>), Opt(Lit(<<"s">>))>>), Lit(<<"\n","\n">>)>>)>>),
      Cat(<<Lit(<<"n","i","c","e"," ","t","o"," ","h","a","v","e">>), Opt(Lit(<<":">>)), Grp(1, Lazy("any", 0)), Alt(<<Cat(<<Lit(<<"r","e","q","u","i","r","e","m","e","n","t">>), Opt(Lit(<<"s">>))>>), Cat(<<Lit(<<"q","u","a","l","i","f","i","c","a","t","i","o","n">>), Opt(Lit(<<"s">>))>>), Lit(<<"\n","\n">>)>>)>>),
      Cat(<<Lit(<<"d","e","s","i","r","e","d"," ","s","k","i","l","l">>), Opt(Lit(<<"s">>)), Opt(Lit(<<":">>)), Grp(1, Lazy("any", 0)), Alt(<<Cat(<<Lit(<<"r","e","q","u","i","r","e","m","e","n","t">>), Opt(Lit(<<"s">>))>>), Cat(<<Lit(<<"q","u","a","l","i","f","i","c","a","t","i","o","n">>), Opt(Lit(<<"s">>))>>), Lit(<<"\n","\n">>)>>)>>),
      Cat(<<Lit(<<"b","o","n","u","s">>), Opt(Lit(<<":">>)), Grp(1, Lazy("any", 0)), Alt(<<Cat(<<Lit(<<"r","e","q","u","i","r","e","m","e","n","t">>), Opt(Lit(<<"s">>))>>), Cat(<<Lit(<<"q","u","a","l","i","f","i","c","a","t","i","o","n">>), Opt(Lit(<<"s">>))>>), Lit(<<"\n","\n">>)>>)>>)>>

\* the hard and the soft skills extract_categorized_skills_from_text finds in each
\* section the patterns capture in the lower-cased text
section_skills(patterns, text) ==
    With(Lower(text), LAMBDA text_lower :
        Flatten([i \in DOMAIN patterns |->
            With(FindAllGroup(patterns[i], text_lower), LAMBDA matches :
                Flatten([j \in DOMAIN matches |->
                    With(extract_categorized_skills_from_text(matches[j]), LAMBDA found :
                        found.hard_skills \o found.soft_skills)]))]))

\* unique_skills of _extract_required_skills: the first of the skills equal in lower case
UniqueLower(items) ==
    With(LowerAll(items) \o <<>>, LAMBDA lowered :
        LET kept == SelectSeq([i \in DOMAIN items |-> <<i, items[i]>>],
                              LAMBDA e : \A j \in 1..(e[1] - 1) : lowered[j] # lowered[e[1]])
        IN  [i \in DOMAIN kept |-> kept[i][2]])

\* _extract_required_skills from the required sections alone
_extract_required_skills_sections_only(text) ==
    UniqueLower(section_skills(required_patterns, text))

_extract_required_skills(text) ==
    With(extract_categorized_skills_from_text(text), LAMBDA categorized_skills :
        UniqueLower(categorized_skills.hard_skills \o categorized_skills.soft_skills
                    \o section_skills(required_patterns, text)))

\* set(preferred_section_skills) of _extract_preferred_skills, before list() orders it
_extract_preferred_skills(text) == Range(section_skills(preferred_patterns, text))

\* the lists list(s) can give for a set s: the order of a set of str is not fixed
Orders(s) ==
    {order \in [1..Cardinality(s) -> s] : \A i, j \in DOMAIN order : i # j => order[i] # order[j]}

years_pattern ==
    Cat(<<Grp(1, Greedy("digit", 1)), Opt(Lit(<<"+">>)), Greedy("space", 0), Opt(Cat(<<Lit(<<"t","o">>), Greedy("space", 0), Grp(2, Greedy("digit", 1))>>)), Greedy("space", 0), Lit(<<"y","e","a","r">>), Opt(Lit(<<"s">>)), Greedy("space", 0), Opt(Cat(<<Lit(<<"o","f">>), Greedy("space", 0)>>)), Words(<<<<"e","x","p","e","r","i","e","n","c","e">>, <<"e","x","p">>>>)>>)

\* level_keywords of _extract_experience_requirements with the senior levels first
job_level_keywords_senior_first ==
    <<[name |-> <<"s","e","n","i","o","r">>, keywords |-> <<<<"s","e","n","i","o","r">>, <<"l","e","a","d">>, <<"p","r","i","n","c","i","p","a","l">>, <<"e","x","p","e","r","t">>>>],
      [name |-> <<"e","x","e","c","u","t","i","v","e">>, keywords |-> <<<<"e","x","e","c","u","t","i","v","e">>, <<"d","i","r","e","c","t","o","r">>, <<"v","p">>, <<"v","i","c","e"," ","p","r","e","s","i","d","e","n","t">>, <<"c","-","l","e","v","e","l">>>>],
      [name |-> <<"e","n","t","r","y">>, keywords |-> <<<<"e","n","t","r","y"," ","l","e","v","e","l">>, <<"j","u","n","i","o","r">>, <<"a","s","s","o","c","i","a","t","e">>, <<"f","r","e","s","h"," ","g","r","a","d","u","a","t","e">>>>],
      [name |-> <<"m","i","d">>, keywords |-> <<<<"m","i","d"," ","l","e","v","e","l">>, <<"i","n","t","e","r","m","e","d","i","a","t","e">>, <<"p","r","o","f","e","s","s","i","o","n","a","l">>>>]>>

\* level_keywords of _extract_experience_requirements, in the order of the dict
job_level_keywords ==
    <<[name |-> <<"e","n","t","r","y">>, keywords |-> <<<<"e","n","t","r","y"," ","l","e","v","e","l">>, <<"j","u","n","i","o","r">>, <<"a","s","s","o","c","i","a","t","e">>, <<"f","r","e","s","h"," ","g","r","a","d","u","a","t","e">>>>],
      [name |-> <<"m","i","d">>, keywords |-> <<<<"m","i","d"," ","l","e","v","e","l">>, <<"i","n","t","e","r","m","e","d","i","a","t","e">>, <<"p","r","o","f","e","s","s","i","o","n","a","l">>>>],
      [name |-> <<"s","e","n","i","o","r">>, keywords |-> <<<<"s","e","n","i","o","r">>, <<"l","e","a","d">>, <<"p","r","i","n","c","i","p","a","l">>, <<"e","x","p","e","r","t">>>>],
      [name |-> <<"e","x","e","c","u","t","i","v","e">>, keywords |-> <<<<"e","x","e","c","u","t","i","v","e">>, <<"d","i","r","e","c","t","o","r">>, <<"v","p">>, <<"v","i","c","e"," ","p","r","e","s","i","d","e","n","t">>, <<"c","-","l","e","v","e","l">>>>]>>

\* years and level are <<>> for None
_extract_experience_requirements(text) ==
    LET years_matches == FindIter(years_pattern, text)
        min_years == GroupText(text, years_matches[1].groups[1])
        max_years == GroupText(text, years_matches[1].groups[2])
        text_lower == Lower(text)
        hit(level) == \E k \in DOMAIN level.keywords : Contains(text_lower, level.keywords[k])
        hits == {i \in DOMAIN job_level_keywords : hit(job_level_keywords[i])}
    IN  [years |->
            IF Len(years_matches) = 0 THEN <<>>
            ELSE IF Len(max_years) > 0 THEN min_years \o <<"-">> \o max_years
            ELSE min_years,
         level |->
            IF hits = {} THEN <<>>
            ELSE job_level_keywords[CHOOSE i \in hits : \A j \in hits : i <= j].name]

\* degree_patterns of _extract_education_requirements, in the order of the dict
degree_patterns ==
    <<[name |-> <<"b","a","c","h","e","l","o","r">>, pattern |-> Cat(<<Lit(<<"b","a","c","h","e","l","o","r">>), Opt(Lit(<<"'","s">>)), Opt(Cat(<<Greedy("space", 1), Words(<<<<"o","f">>, <<"i","n">>>>)>>)), Greedy("space", 1), Words(<<<<"s","c","i","e","n","c","e">>, <<"a","r","t","s">>, <<"e","n","g","i","n","e","e","r","i","n","g">>, <<"b","u","s","i","n","e","s","s">>, <<"c","o","m","p","u","t","e","r"," ","s","c","i","e","n","c","e">>>>)>>)],
      [name |-> <<"m","a","s","t","e","r">>, pattern |-> Cat(<<Lit(<<"m","a","s","t","e","r">>), Opt(Lit(<<"'","s">>)), Opt(Cat(<<Greedy("space", 1), Words(<<<<"o","f">>, <<"i","n">>>>)>>)), Greedy("space", 1), Words(<<<<"s","c","i","e","n","c","e">>, <<"a","r","t","s">>, <<"e","n","g","i","n","e","e","r","i","n","g">>, <<"b","u","s","i","n","e","s","s"," ","a","d","m","i","n","i","s","t","r","a","t","i","o","n">>, <<"c","o","m","p","u","t","e","r"," ","s","c","i","e","n","c","e">>>>)>>)],
      [name |-> <<"p","h","d">>, pattern |-> Words(<<<<"p","h","d">>, <<"p","h",".","d",".">>, <<"d","o","c","t","o","r","a","t","e">>>>)],
      [name |-> <<"a","s","s","o","c","i","a","t","e">>, pattern |-> Cat(<<Lit(<<"a","s","s","o","c","i","a","t","e">>), Opt(Lit(<<"'","s">>)), Greedy("space", 1), Lit(<<"d","e","g","r","e","e">>)>>)]>>

field_patterns ==
    <<<<"c","o","m","p","u","t","e","r"," ","s","c","i","e","n","c","e">>, <<"s","o","f","t","w","a","r","e"," ","e","n","g","i","n","e","e","r","i","n","g">>, <<"i","n","f","o","r","m","a","t","i","o","n"," ","t","e","c","h","n","o","l","o","g","y">>,
      <<"e","l","e","c","t","r","i","c","a","l"," ","e","n","g","i","n","e","e","r","i","n","g">>, <<"d","a","t","a"," ","s","c","i","e","n","c","e">>, <<"m","a","t","h","e","m","a","t","i","c","s">>, <<"p","h","y","s","i","c","s">>,
      <<"b","u","s","i","n","e","s","s"," ","a","d","m","i","n","i","s","t","r","a","t","i","o","n">>, <<"f","i","n","a","n","c","e">>, <<"m","a","r","k","e","t","i","n","g">>>>

cert_patterns ==
    <<Cat(<<Words(<<<<"c","e","r","t","i","f","i","e","d">>, <<"c","e","r","t","i","f","i","c","a","t","i","o","n">>>>), Greedy("space", 1), Greedy("word", 1), Rep(Cat(<<Greedy("space", 1), Greedy("word", 1)>>), 3)>>),
      Cat(<<Greedy("letter", 2), Alt(<<Lit(<<"+">>), Cat(<<Greedy("space", 1), Lit(<<"c","e","r","t","i","f","i","e","d">>)>>)>>)>>)>>

\* degree_level is <<>> for None
_extract_education_requirements(text) ==
    With(Lower(text), LAMBDA text_lower :
        LET found == {i \in DOMAIN degree_patterns : Matches(degree_patterns[i].pattern, text_lower)}
        IN  [degree_level |->
                IF found = {} THEN <<>>
                ELSE degree_patterns[CHOOSE i \in found : \A j \in found : i <= j].name,
             field_of_study |-> SelectSeq(field_patterns, LAMBDA field : Contains(text_lower, field)),
             certifications |->
                Flatten([i \in DOMAIN cert_patterns |-> FindAll(cert_patterns[i], text)])])

\* title_patterns of _extract_job_title, compiled with MULTILINE
title_patterns ==
    <<Cat(<<Bol, Grp(1, Greedy("notnl", 1))>>),
      Cat(<<Words(<<<<"p","o","s","i","t","i","o","n">>, <<"t","i","t","l","e">>, <<"r","o","l","e">>>>), Lit(<<":">>), Greedy("space", 0), Grp(1, Greedy("notnl", 1))>>),
      Cat(<<Lit(<<"j","o","b"," ","t","i","t","l","e",":">>), Greedy("space", 0), Grp(1, Greedy("notnl", 1))>>)>>

MaxTitleLength == 100
UnknownPosition == <<"U","n","k","n","o","w","n"," ","P","o","s","i","t","i","o","n">>

\* the titles _extract_job_title tries, in order: what the group of each pattern that
\* matches captured, stripped
title_candidates(text) ==
    LET found == [i \in DOMAIN title_patterns |-> FindIter(title_patterns[i], text)] \o <<>>
        tried == SelectSeq([i \in DOMAIN title_patterns |-> i], LAMBDA i : Len(found[i]) > 0)
    IN  [k \in DOMAIN tried |-> Strip(GroupText(text, found[tried[k]][1].groups[1]))]

\* _extract_job_title that measures the title before it strips it
_extract_job_title_unstripped(text) ==
    LET found == [i \in DOMAIN title_patterns |-> FindIter(title_patterns[i], text)] \o <<>>
        tried == SelectSeq([i \in DOMAIN title_patterns |-> i], LAMBDA i : Len(found[i]) > 0)
        titles == [k \in DOMAIN tried |-> GroupText(text, found[tried[k]][1].groups[1])]
        short == SelectSeq(titles, LAMBDA title : Len(title) < MaxTitleLength)
    IN  IF Len(short) = 0 THEN UnknownPosition ELSE Strip(short[1])

_extract_job_title(text) ==
    LET short == SelectSeq(title_candidates(text), LAMBDA title : Len(title) < MaxTitleLength)
    IN  IF Len(short) = 0 THEN UnknownPosition ELSE short[1]

_extract_employment_type(text) ==
    With(Lower(text), LAMBDA text_lower :
        IF Contains(text_lower, <<"f","u","l","l","-","t","i","m","e">>) \/ Contains(text_lower, <<"f","u","l","l"," ","t","i","m","e">>)
        THEN <<"f","u","l","l","-","t","i","m","e">>
        ELSE IF Contains(text_lower, <<"p","a","r","t","-","t","i","m","e">>) \/ Contains(text_lower, <<"p","a","r","t"," ","t","i","m","e">>)
        THEN <<"p","a","r","t","-","t","i","m","e">>
        ELSE IF Contains(text_lower, <<"c","o","n","t","r","a","c","t">>) \/ Contains(text_lower, <<"c","o","n","t","r","a","c","t","o","r">>)
        THEN <<"c","o","n","t","r","a","c","t">>
        ELSE IF Contains(text_lower, <<"i","n","t","e","r","n","s","h","i","p">>) \/ Contains(text_lower, <<"i","n","t","e","r","n">>)
        THEN <<"i","n","t","e","r","n","s","h","i","p">>
        ELSE IF Contains(text_lower, <<"t","e","m","p","o","r","a","r","y">>) \/ Contains(text_lower, <<"t","e","m","p">>)
        THEN <<"t","e","m","p","o","r","a","r","y">>
        ELSE IF Contains(text_lower, <<"f","r","e","e","l","a","n","c","e">>) THEN <<"f","r","e","e","l","a","n","c","e">>
        ELSE <<"n","o","t"," ","s","p","e","c","i","f","i","e","d">>)

\* industry_terms of _extract_industry_keywords, in the order of the dict
industry_terms ==
    <<[name |-> <<"f","i","n","t","e","c","h">>, keywords |-> <<<<"f","i","n","a","n","c","i","a","l">>, <<"b","a","n","k","i","n","g">>, <<"p","a","y","m","e","n","t","s">>, <<"t","r","a","d","i","n","g">>, <<"i","n","v","e","s","t","m","e","n","t">>>>],
      [name |-> <<"h","e","a","l","t","h","c","a","r","e">>, keywords |-> <<<<"m","e","d","i","c","a","l">>, <<"p","a","t","i","e","n","t">>, <<"c","l","i","n","i","c","a","l">>, <<"h","e","a","l","t","h","c","a","r","e">>, <<"H","I","P","A","A">>>>],
      [name |-> <<"e","-","c","o","m","m","e","r","c","e">>, keywords |-> <<<<"r","e","t","a","i","l">>, <<"s","h","o","p","p","i","n","g">>, <<"c","a","r","t">>, <<"p","a","y","m","e","n","t">>, <<"i","n","v","e","n","t","o","r","y">>>>],
      [name |-> <<"s","a","a","s">>, keywords |-> <<<<"s","u","b","s","c","r","i","p","t","i","o","n">>, <<"m","u","l","t","i","-","t","e","n","a","n","t">>, <<"c","l","o","u","d">>, <<"e","n","t","e","r","p","r","i","s","e">>, <<"B","2","B">>>>],
      [name |-> <<"g","a","m","i","n","g">>, keywords |-> <<<<"g","a","m","e">>, <<"u","n","i","t","y">>, <<"u","n","r","e","a","l">>, <<"g","r","a","p","h","i","c","s">>, <<"3","D">>>>],
      [name |-> <<"a","i","/","m","l">>, keywords |-> <<<<"a","r","t","i","f","i","c","i","a","l"," ","i","n","t","e","l","l","i","g","e","n","c","e">>, <<"m","a","c","h","i","n","e"," ","l","e","a","r","n","i","n","g">>, <<"n","e","u","r","a","l">>, <<"m","o","d","e","l">>>>]>>

_extract_industry_keywords(text) ==
    With(Lower(text), LAMBDA text_lower :
        LET found == SelectSeq(industry_terms,
                               LAMBDA industry :
                                   \E k \in DOMAIN industry.keywords :
                                       Contains(text_lower, industry.keywords[k]))
        IN  [i \in DOMAIN found |-> found[i].name])

\* all_hard_skills and all_soft_skills of analyze() with the names lower-cased
all_skills_lowered(required, preferred, found) ==
    {Lower(s) : s \in Range(required \o preferred \o found)}

\* set(required + preferred + found) of analyze(), before list() orders it
all_skills(required, preferred, found) == Range(required \o preferred \o found)

\* the record analyze() builds from the parts that have one value and from the three
\* lists made of a set
analysis(fixed, required_categorized, preferred_skills, all_hard, all_soft) ==
    LET preferred_categorized == categorize_skills(preferred_skills)
    IN  [raw_text |-> Val(fixed.raw_text),
         required_skills |-> Val(fixed.required_skills),
         preferred_skills |-> Val(preferred_skills),
         required_hard_skills |-> Val(required_categorized.hard_skills),
         required_soft_skills |-> Val(required_categorized.soft_skills),
         preferred_hard_skills |-> Val(preferred_categorized.hard_skills),
         preferred_soft_skills |-> Val(preferred_categorized.soft_skills),
         all_hard_skills |-> Val(all_hard),
         all_soft_skills |-> Val(all_soft),
         experience_required |-> Val(fixed.experience_required),
         education_required |-> Val(fixed.education_required),
         keywords |-> Val(fixed.keywords),
         job_title |-> Val(fixed.job_title),
         employment_type |-> Val(fixed.employment_type),
         industry_keywords |-> Val(fixed.industry_keywords)]

\* JobAnalyzer.analyze(job_description): the records it can return, one for each
\* order list(set(...)) can give preferred_skills, all_hard_skills and all_soft_skills
analyze(text) ==
    With([raw_text |-> text,
          required_skills |-> _extract_required_skills(text),
          experience_required |-> _extract_experience_requirements(text),
          education_required |-> _extract_education_requirements(text),
          keywords |-> extract(text, DefaultTopN),
          job_title |-> _extract_job_title(text),
          employment_type |-> _extract_employment_type(text),
          industry_keywords |-> _extract_industry_keywords(text),
          preferred |-> _extract_preferred_skills(text),
          text_skills |-> extract_categorized_skills_from_text(text)],
         LAMBDA fixed :
            With(categorize_skills(fixed.required_skills), LAMBDA required_categorized :
                UNION {
                    With(categorize_skills(preferred_skills), LAMBDA preferred_categorized :
                        {analysis(fixed, required_categorized, preferred_skills, all_hard, all_soft) :
                            all_hard \in Orders(all_skills(required_categorized.hard_skills,
                                                           preferred_categorized.hard_skills,
                                                           fixed.text_skills.hard_skills)),
                            all_soft \in Orders(all_skills(required_categorized.soft_skills,
                                                           preferred_categorized.soft_skills,
                                                           fixed.text_skills.soft_skills))}) :
                    preferred_skills \in Orders(fixed.preferred)}))

----------------------------------------------------------------------------
(* RequirementsParser *)

\* the delimiters of _extract_list_items: bullet points, numbered lists, lettered
\* lists, double newlines.  The two bullet characters outside ASCII are outside
\* the texts of the model.
delimiters ==
    <<Cat(<<Lit(<<"\n">>), Greedy("space", 0), Words(<<<<"-">>, <<"*">>>>), Greedy("space", 0)>>),
      Cat(<<Lit(<<"\n">>), Greedy("space", 0), Greedy("digit", 1), Words(<<<<".">>, <<")">>>>), Greedy("space", 0)>>),
      Cat(<<Lit(<<"\n">>), Greedy("space", 0), One("letter"), Words(<<<<".">>, <<")">>>>), Greedy("space", 0)>>),
      Lit(<<"\n","\n">>)>>

\* [.!?]\s+
sentence_end == Cat(<<Words(<<<<".">>, <<"!">>, <<"?">>>>), Greedy("space", 1)>>)

\* _extract_list_items(text): the parts between the first kind of delimiter that
\* occurs in text, the sentences of text when none does
_extract_list_items(text) ==
    With([d \in DOMAIN delimiters |-> Split(delimiters[d], text)] \o <<>>, LAMBDA parts :
        IF \E d \in DOMAIN parts : Len(parts[d]) > 1
        THEN parts[CHOOSE d \in DOMAIN parts :
                       Len(parts[d]) > 1 /\ \A e \in 1..(d - 1) : Len(parts[e]) <= 1]
        ELSE Split(sentence_end, text))

\* the noise patterns of _clean_requirements: ^and\s+, ^or\s+, ^\s*$, ^[,;]\s*
noise_patterns ==
    <<Cat(<<Start, Lit(<<"a","n","d">>), Greedy("space", 1)>>),
      Cat(<<Start, Lit(<<"o","r">>), Greedy("space", 1)>>),
      Cat(<<Start, Greedy("space", 0), Eos>>),
      Cat(<<Start, Words(<<<<",">>, <<";">>>>), Greedy("space", 0)>>)>>

\* the item after the noise patterns were removed from it, one after the other
without_noise(req) ==
    RemoveAtStart(noise_patterns[4],
        RemoveAtStart(noise_patterns[3],
            RemoveAtStart(noise_patterns[2], RemoveAtStart(noise_patterns[1], req))))

\* the items that pass the length test of _clean_requirements, stripped
MinItemLength == 5
MaxItemLength == 500
of_length(requirements) ==
    SelectSeq([i \in DOMAIN requirements |-> Strip(requirements[i])] \o <<>>,
              LAMBDA req : Len(req) >= MinItemLength /\ Len(req) <= MaxItemLength)

\* req[0].upper() + req[1:]
capitalized(req) == <<UpperChar[req[1]]>> \o Tail(req)

\* _clean_requirements(requirements): the items of 5 to 500 characters, without
\* noise at their start, the first letter a capital, the first of the items that
\* are equal in lower case
_clean_requirements(requirements) ==
    LET kept == of_length(requirements)
        cut == [i \in DOMAIN kept |-> without_noise(kept[i])] \o <<>>
        full == SelectSeq(cut, LAMBDA req : Len(req) > 0)
        cleaned == [i \in DOMAIN full |-> capitalized(full[i])] \o <<>>
        first == {i \in DOMAIN cleaned :
                     \A j \in 1..(i - 1) : Lower(cleaned[j]) # Lower(cleaned[i])}
    IN  [k \in 1..Cardinality(first) |->
            cleaned[CHOOSE i \in first : Cardinality({j \in first : j < i}) = k - 1]] \o <<>>

\* the items of the sections of text that the patterns find, in the order of the
\* patterns and of the matches
section_items(patterns, text) ==
    With(Lower(text), LAMBDA text_lower :
        Flatten([p \in DOMAIN patterns |->
            With(FindAllGroup(patterns[p], text_lower), LAMBDA matches :
                Flatten([m \in DOMAIN matches |-> _extract_list_items(matches[m])]))]))

\* _parse_must_haves(text): the must-have requirements
_parse_must_haves(text) ==
    _clean_requirements(section_items(
        <<Cat(<<Words(<<<<"r","e","q","u","i","r","e","d">>, <<"m","u","s","t"," ","h","a","v","e">>, <<"e","s","s","e","n","t","i","a","l">>, <<"m","a","n","d","a","t","o","r","y">>>>), Opt(Cat(<<Greedy("space", 1), Alt(<<Cat(<<Lit(<<"s","k","i","l","l">>), Opt(Lit(<<"s">>))>>), Cat(<<Lit(<<"q","u","a","l","i","f","i","c","a","t","i","o","n">>), Opt(Lit(<<"s">>))>>), Cat(<<Lit(<<"r","e","q","u","i","r","e","m","e","n","t">>), Opt(Lit(<<"s">>))>>)>>)>>)), Greedy("space", 0), Opt(Lit(<<":">>)), Greedy("space", 0), Grp(1, Lazy("any", 0)), Alt(<<Lit(<<"\n","\n">>), End>>)>>),
          Cat(<<Lit(<<"w","h","a","t"," ","y","o","u","'","l","l"," ","n","e","e","d">>), Greedy("space", 0), Opt(Lit(<<":">>)), Greedy("space", 0), Grp(1, Lazy("any", 0)), Alt(<<Lit(<<"\n","\n">>), End>>)>>),
          Cat(<<Lit(<<"m","i","n","i","m","u","m"," ","r","e","q","u","i","r","e","m","e","n","t">>), Opt(Lit(<<"s">>)), Greedy("space", 0), Opt(Lit(<<":">>)), Greedy("space", 0), Grp(1, Lazy("any", 0)), Alt(<<Lit(<<"\n","\n">>), End>>)>>)>>,
        text))

\* _parse_nice_to_haves(text): the nice-to-have requirements
_parse_nice_to_haves(text) ==
    _clean_requirements(section_items(
        <<Cat(<<Words(<<<<"n","i","c","e"," ","t","o"," ","h","a","v","e">>, <<"p","r","e","f","e","r","r","e","d">>, <<"d","e","s","i","r","e","d">>, <<"b","o","n","u","s">>, <<"p","l","u","s">>>>), Opt(Cat(<<Greedy("space", 1), Alt(<<Cat(<<Lit(<<"s","k","i","l","l">>), Opt(Lit(<<"s">>))>>), Cat(<<Lit(<<"q","u","a","l","i","f","i","c","a","t","i","o","n">>), Opt(Lit(<<"s">>))>>)>>)>>)), Greedy("space", 0), Opt(Lit(<<":">>)), Greedy("space", 0), Grp(1, Lazy("any", 0)), Alt(<<Lit(<<"\n","\n">>), End>>)>>),
          Cat(<<Lit(<<"w","h","a","t"," ","w","o","u","l","d"," ","b","e"," ","g","r","e","a","t">>), Greedy("space", 0), Opt(Lit(<<":">>)), Greedy("space", 0), Grp(1, Lazy("any", 0)), Alt(<<Lit(<<"\n","\n">>), End>>)>>),
          Cat(<<Lit(<<"a","d","d","i","t","i","o","n","a","l"," ","q","u","a","l","i","f","i","c","a","t","i","o","n">>), Opt(Lit(<<"s">>)), Greedy("space", 0), Opt(Lit(<<":">>)), Greedy("space", 0), Grp(1, Lazy("any", 0)), Alt(<<Lit(<<"\n","\n">>), End>>)>>)>>,
        text))

\* _parse_responsibilities(text): the job responsibilities
_parse_responsibilities(text) ==
    _clean_requirements(section_items(
        <<Cat(<<Alt(<<Lit(<<"r","e","s","p","o","n","s","i","b","i","l","i","t","i","e","s">>), Lit(<<"d","u","t","i","e","s">>), Lit(<<"w","h","a","t"," ","y","o","u","'","l","l"," ","d","o">>), Lit(<<"r","o","l","e">>), Cat(<<Lit(<<"t","a","s","k">>), Opt(Lit(<<"s">>))>>)>>), Greedy("space", 0), Opt(Lit(<<":">>)), Greedy("space", 0), Grp(1, Lazy("any", 0)), Alt(<<Lit(<<"\n","\n">>), Cat(<<Lit(<<"r","e","q","u","i","r","e","m","e","n","t">>), Opt(Lit(<<"s">>))>>), Cat(<<Lit(<<"q","u","a","l","i","f","i","c","a","t","i","o","n">>), Opt(Lit(<<"s">>))>>), End>>)>>),
          Cat(<<Lit(<<"y","o","u"," ","w","i","l","l">>), Greedy("space", 0), Opt(Lit(<<":">>)), Greedy("space", 0), Grp(1, Lazy("any", 0)), Alt(<<Lit(<<"\n","\n">>), Cat(<<Lit(<<"r","e","q","u","i","r","e","m","e","n","t">>), Opt(Lit(<<"s">>))>>), Cat(<<Lit(<<"q","u","a","l","i","f","i","c","a","t","i","o","n">>), Opt(Lit(<<"s">>))>>), End>>)>>),
          Cat(<<Lit(<<"k","e","y"," ","r","e","s","p","o","n","s","i","b","i","l","i","t","i","e","s">>), Greedy("space", 0), Opt(Lit(<<":">>)), Greedy("space", 0), Grp(1, Lazy("any", 0)), Alt(<<Lit(<<"\n","\n">>), End>>)>>)>>,
        text))

\* _parse_benefits(text): the benefits and perks
_parse_benefits(text) ==
    _clean_requirements(section_items(
        <<Cat(<<Alt(<<Cat(<<Lit(<<"b","e","n","e","f","i","t">>), Opt(Lit(<<"s">>))>>), Cat(<<Lit(<<"p","e","r","k">>), Opt(Lit(<<"s">>))>>), Lit(<<"w","h","a","t"," ","w","e"," ","o","f","f","e","r">>), Lit(<<"c","o","m","p","e","n","s","a","t","i","o","n">>)>>), Greedy("space", 0), Opt(Lit(<<":">>)), Greedy("space", 0), Grp(1, Lazy("any", 0)), Alt(<<Lit(<<"\n","\n">>), Cat(<<Lit(<<"r","e","q","u","i","r","e","m","e","n","t">>), Opt(Lit(<<"s">>))>>), Cat(<<Lit(<<"q","u","a","l","i","f","i","c","a","t","i","o","n">>), Opt(Lit(<<"s">>))>>), End>>)>>),
          Cat(<<Lit(<<"w","h","y"," ","j","o","i","n"," ","u","s">>), Opt(Lit(<<"?">>)), Greedy("space", 0), Opt(Lit(<<":">>)), Greedy("space", 0), Grp(1, Lazy("any", 0)), Alt(<<Lit(<<"\n","\n">>), End>>)>>)>>,
        text))

\* _parse_qualifications(text): the general qualifications
_parse_qualifications(text) ==
    _clean_requirements(section_items(
        <<Cat(<<Lit(<<"q","u","a","l","i","f","i","c","a","t","i","o","n">>), Opt(Lit(<<"s">>)), Greedy("space", 0), Opt(Lit(<<":">>)), Greedy("space", 0), Grp(1, Lazy("any", 0)), Alt(<<Lit(<<"\n","\n">>), Lit(<<"r","e","s","p","o","n","s","i","b","i","l","i","t","i","e","s">>), Cat(<<Lit(<<"r","e","q","u","i","r","e","m","e","n","t">>), Opt(Lit(<<"s">>))>>), End>>)>>),
          Cat(<<Lit(<<"i","d","e","a","l"," ","c","a","n","d","i","d","a","t","e">>), Greedy("space", 0), Opt(Lit(<<":">>)), Greedy("space", 0), Grp(1, Lazy("any", 0)), Alt(<<Lit(<<"\n","\n">>), End>>)>>),
          Cat(<<Lit(<<"w","e","'","r","e"," ","l","o","o","k","i","n","g"," ","f","o","r">>), Greedy("space", 0), Opt(Lit(<<":">>)), Greedy("space", 0), Grp(1, Lazy("any", 0)), Alt(<<Lit(<<"\n","\n">>), End>>)>>)>>,
        text))

\* RequirementsParser.parse(text)
RequirementsParser_parse(text) ==
    [must_have |-> _parse_must_haves(text),
     nice_to_have |-> _parse_nice_to_haves(text),
     responsibilities |-> _parse_responsibilities(text),
     benefits |-> _parse_benefits(text),
     qualifications |-> _parse_qualifications(text)]

----------------------------------------------------------------------------
(* KeywordMatcher *)

\* what the LLM answers: the texts GroqClient.generate returns in the model
Responses ==
    {<<"I","n","v","a","l","i","d"," ","J","S","O","N"," ","r","e","s","p","o","n","s","e">>,
     <<"{","\"","e","x","a","c","t","_","m","a","t","c","h","e","s","\"",":"," ","[","\"","P","y","t","h","o","n","\"","]",","," ","\"","r","e","l","a","t","e","d","_","m","a","t","c","h","e","s","\"",":"," ","[","{","\"","j","o","b","_","k","e","y","w","o","r","d","\"",":"," ","\"","A","P","I","\"","}","]","}">>,
     <<"H","e","r","e",":"," ","{","\"","e","x","a","c","t","_","m","a","t","c","h","e","s","\"",":"," ","[","]",","," ","\"","s","e","m","a","n","t","i","c","_","m","a","t","c","h","e","s","\"",":"," ","[","{","\"","j","o","b","_","k","e","y","w","o","r","d","\"",":"," ","\"","M","L","\"","}","]","}"," ","D","o","n","e",".">>,
     <<"{","\"","e","x","a","c","t","_","m","a","t","c","h","e","s","\"",":"," ","[","\"","P","y","t","h","o","n","\"",",","}">>,
     <<"{","n","o","t","e","}"," ","{","\"","e","x","a","c","t","_","m","a","t","c","h","e","s","\"",":"," ","[","]","}">>,
     <<"{","\"","e","x","a","c","t","_","m","a","t","c","h","e","s","\"",":"," ","2","}">>,
     <<"{","\"","m","a","t","c","h","_","r","a","t","e","\"",":"," ","\"","h","i","g","h","\"","}">>,
     <<"{","}">>}

\* json.loads on the pieces of the responses that start with { and end with }:
\* the dict it returns, each value with its kind, its len() (-1 where it has
\* none) and its text, or the JSONDecodeError it raises (ok false)
JsonLoads ==
    {[text |-> <<"{","\"","e","x","a","c","t","_","m","a","t","c","h","e","s","\"",":"," ","[","\"","P","y","t","h","o","n","\"","]",","," ","\"","r","e","l","a","t","e","d","_","m","a","t","c","h","e","s","\"",":"," ","[","{","\"","j","o","b","_","k","e","y","w","o","r","d","\"",":"," ","\"","A","P","I","\"","}">>,
       ok |-> FALSE, value |-> <<>>],
     [text |-> <<"{","\"","e","x","a","c","t","_","m","a","t","c","h","e","s","\"",":"," ","[","\"","P","y","t","h","o","n","\"","]",","," ","\"","r","e","l","a","t","e","d","_","m","a","t","c","h","e","s","\"",":"," ","[","{","\"","j","o","b","_","k","e","y","w","o","r","d","\"",":"," ","\"","A","P","I","\"","}","]","}">>,
       ok |-> TRUE, value |-> [k \in {"exact_matches", "related_matches"} |-> CASE k = "exact_matches" -> [kind |-> "list", len |-> 1, text |-> <<"[","\"","P","y","t","h","o","n","\"","]">>] [] k = "related_matches" -> [kind |-> "list", len |-> 1, text |-> <<"[","{","\"","j","o","b","_","k","e","y","w","o","r","d","\"",":"," ","\"","A","P","I","\"","}","]">>]]],
     [text |-> <<"{","\"","j","o","b","_","k","e","y","w","o","r","d","\"",":"," ","\"","A","P","I","\"","}">>,
       ok |-> TRUE, value |-> [k \in {"job_keyword"} |-> CASE k = "job_keyword" -> [kind |-> "string", len |-> 3, text |-> <<"\"","A","P","I","\"">>]]],
     [text |-> <<"{","\"","j","o","b","_","k","e","y","w","o","r","d","\"",":"," ","\"","A","P","I","\"","}","]","}">>,
       ok |-> FALSE, value |-> <<>>],
     [text |-> <<"{","\"","e","x","a","c","t","_","m","a","t","c","h","e","s","\"",":"," ","[","]",","," ","\"","s","e","m","a","n","t","i","c","_","m","a","t","c","h","e","s","\"",":"," ","[","{","\"","j","o","b","_","k","e","y","w","o","r","d","\"",":"," ","\"","M","L","\"","}">>,
       ok |-> FALSE, value |-> <<>>],
     [text |-> <<"{","\"","e","x","a","c","t","_","m","a","t","c","h","e","s","\"",":"," ","[","]",","," ","\"","s","e","m","a","n","t","i","c","_","m","a","t","c","h","e","s","\"",":"," ","[","{","\"","j","o","b","_","k","e","y","w","o","r","d","\"",":"," ","\"","M","L","\"","}","]","}">>,
       ok |-> TRUE, value |-> [k \in {"exact_matches", "semantic_matches"} |-> CASE k = "exact_matches" -> [kind |-> "list", len |-> 0, text |-> <<"[","]">>] [] k = "semantic_matches" -> [kind |-> "list", len |-> 1, text |-> <<"[","{","\"","j","o","b","_","k","e","y","w","o","r","d","\"",":"," ","\"","M","L","\"","}","]">>]]],
     [text |-> <<"{","\"","j","o","b","_","k","e","y","w","o","r","d","\"",":"," ","\"","M","L","\"","}">>,
       ok |-> TRUE, value |-> [k \in {"job_keyword"} |-> CASE k = "job_keyword" -> [kind |-> "string", len |-> 2, text |-> <<"\"","M","L","\"">>]]],
     [text |-> <<"{","\"","j","o","b","_","k","e","y","w","o","r","d","\"",":"," ","\"","M","L","\"","}","]","}">>,
       ok |-> FALSE, value |-> <<>>],
     [text |-> <<"{","\"","e","x","a","c","t","_","m","a","t","c","h","e","s","\"",":"," ","[","\"","P","y","t","h","o","n","\"",",","}">>,
       ok |-> FALSE, value |-> <<>>],
     [text |-> <<"{","n","o","t","e","}">>,
       ok |-> FALSE, value |-> <<>>],
     [text |-> <<"{","n","o","t","e","}"," ","{","\"","e","x","a","c","t","_","m","a","t","c","h","e","s","\"",":"," ","[","]","}">>,
       ok |-> FALSE, value |-> <<>>],
     [text |-> <<"{","\"","e","x","a","c","t","_","m","a","t","c","h","e","s","\"",":"," ","[","]","}">>,
       ok |-> TRUE, value |-> [k \in {"exact_matches"} |-> CASE k = "exact_matches" -> [kind |-> "list", len |-> 0, text |-> <<"[","]">>]]],
     [text |-> <<"{","\"","e","x","a","c","t","_","m","a","t","c","h","e","s","\"",":"," ","2","}">>,
       ok |-> TRUE, value |-> [k \in {"exact_matches"} |-> CASE k = "exact_matches" -> [kind |-> "number", len |-> -1, text |-> <<"2">>]]],
     [text |-> <<"{","\"","m","a","t","c","h","_","r","a","t","e","\"",":"," ","\"","h","i","g","h","\"","}">>,
       ok |-> TRUE, value |-> [k \in {"match_rate"} |-> CASE k = "match_rate" -> [kind |-> "string", len |-> 4, text |-> <<"\"","h","i","g","h","\"">>]]],
     [text |-> <<"{","}">>,
       ok |-> TRUE, value |-> <<>>]}

\* _basic_match_keywords(resume_keywords, job_keywords) with the substring looked
\* for in one direction only: the job keyword inside the resume keyword
_basic_match_keywords_one_way(resume_keywords, job_keywords) ==
    LET resume_keywords_lower == LowerAll(resume_keywords)
        is_exact(k) == \E i \in DOMAIN resume_keywords_lower : resume_keywords_lower[i] = Lower(k)
        near(k) == {i \in DOMAIN resume_keywords_lower : Contains(resume_keywords_lower[i], Lower(k))}
        exact_matches == SelectSeq(job_keywords, is_exact)
        similar == SelectSeq(job_keywords, LAMBDA k : ~is_exact(k) /\ near(k) # {})
        unmatched == SelectSeq(job_keywords, LAMBDA k : ~is_exact(k) /\ near(k) = {})
    IN  [exact_matches |-> exact_matches,
         similar_matches |->
            [n \in DOMAIN similar |->
                [job_keyword |-> similar[n],
                 resume_keyword |-> resume_keywords[CHOOSE i \in near(similar[n]) :
                                                       \A j \in near(similar[n]) : i <= j]]],
         unmatched |-> unmatched,
         match_rate |-> RMul(Rat(Len(exact_matches) + Len(similar),
                                 IF Len(job_keywords) > 0 THEN Len(job_keywords) ELSE 1),
                             RInt(100))]

\* _basic_match_keywords(resume_keywords, job_keywords)
_basic_match_keywords(resume_keywords, job_keywords) ==
    LET resume_keywords_lower == LowerAll(resume_keywords)
        \* job_keyword_lower in resume_keywords_lower
        is_exact(k) == \E i \in DOMAIN resume_keywords_lower : resume_keywords_lower[i] = Lower(k)
        \* the resume keywords that hold the job keyword or that it holds
        near(k) ==
            {i \in DOMAIN resume_keywords_lower :
                \/ Contains(resume_keywords_lower[i], Lower(k))
                \/ Contains(Lower(k), resume_keywords_lower[i])}
        \* resume_keywords_lower.index(resume_keyword), for the first of them
        index(k) ==
            LET found == CHOOSE i \in near(k) : \A j \in near(k) : i <= j
            IN  CHOOSE i \in DOMAIN resume_keywords_lower :
                    /\ resume_keywords_lower[i] = resume_keywords_lower[found]
                    /\ \A j \in 1..(i - 1) : resume_keywords_lower[j] # resume_keywords_lower[found]
        exact_matches == SelectSeq(job_keywords, is_exact)
        similar == SelectSeq(job_keywords, LAMBDA k : ~is_exact(k) /\ near(k) # {})
        unmatched == SelectSeq(job_keywords, LAMBDA k : ~is_exact(k) /\ near(k) = {})
        match_rate == Len(exact_matches) + Len(similar)
        total_keywords == IF Len(job_keywords) > 0 THEN Len(job_keywords) ELSE 1
    IN  [exact_matches |-> exact_matches,
         similar_matches |->
            [n \in DOMAIN similar |->
                [job_keyword |-> similar[n], resume_keyword |-> resume_keywords[index(similar[n])]]],
         unmatched |-> unmatched,
         match_rate |-> RMul(Rat(match_rate, total_keywords), RInt(100))]

\* r'\{.*\}' with DOTALL
json_object_pattern == Cat(<<Lit(<<"{">>), Greedy("any", 0), Lit(<<"}">>)>>)

\* json.loads(text)
json_loads(text) == CHOOSE e \in JsonLoads : e.text = text

\* len(result.get(key, [])), -1 where len() raises TypeError
len_of(result, key) == IF key \in DOMAIN result THEN result[key].len ELSE 0

\* the dict match_keywords returns from the dict the LLM answered with
llm_result(result, job_keywords) ==
    LET total_job_keywords == IF Len(job_keywords) > 0 THEN Len(job_keywords) ELSE 1
        matched_count ==
            RAdd(RInt(len_of(result, "exact_matches") + len_of(result, "semantic_matches")),
                 RMul(RInt(len_of(result, "related_matches")), <<1, 2>>))
    IN  [k \in DOMAIN result \cup {"match_rate", "total_job_keywords", "matched_count"} |->
            CASE k = "match_rate" -> RMul(RMul(matched_count, Rat(1, total_job_keywords)), RInt(100))
              [] k = "total_job_keywords" -> total_job_keywords
              [] k = "matched_count" -> matched_count
              [] OTHER -> result[k]]

Returns(value) == [status |-> "returned", value |-> value]

\* the LLM is not called, GroqClient.generate raises, or it returns a response,
\* which is a text or None
NotCalled == [called |-> FALSE, raises |-> FALSE, response |-> None(<<>>)]
GenerateRaises == [called |-> TRUE, raises |-> TRUE, response |-> None(<<>>)]
Generates(response) == [called |-> TRUE, raises |-> FALSE, response |-> response]

\* match_keywords that lets the JSONDecodeError of json.loads pass to its caller
match_keywords_decode_error_passed(self, resume_keywords, job_keywords, llm) ==
    IF ~self.use_llm \/ self.llm_client = "None" \/ llm.raises \/ IsNone(llm.response)
    THEN Returns(_basic_match_keywords(resume_keywords, job_keywords))
    ELSE LET json_match == Take(FindAll(json_object_pattern, Get(llm.response)), 1)
         IN  IF json_match = <<>>
             THEN Returns(_basic_match_keywords(resume_keywords, job_keywords))
             ELSE IF ~json_loads(json_match[1]).ok
             THEN [status |-> "raised", value |-> "JSONDecodeError"]
             ELSE IF \E k \in {"exact_matches", "semantic_matches", "related_matches"} :
                        len_of(json_loads(json_match[1]).value, k) < 0
             THEN Returns(_basic_match_keywords(resume_keywords, job_keywords))
             ELSE Returns(llm_result(json_loads(json_match[1]).value, job_keywords))

\* self.match_keywords(resume_keywords, job_keywords); llm: what the call of
\* self.llm_client.generate does, when it is made
match_keywords(self, resume_keywords, job_keywords, llm) ==
    IF ~self.use_llm \/ self.llm_client = "None"
    THEN Returns(_basic_match_keywords(resume_keywords, job_keywords))
    ELSE IF llm.raises
    \* except Exception
    THEN Returns(_basic_match_keywords(resume_keywords, job_keywords))
    ELSE IF IsNone(llm.response)
    \* re.search raises TypeError: except Exception
    THEN Returns(_basic_match_keywords(resume_keywords, job_keywords))
    ELSE LET json_match == Take(FindAll(json_object_pattern, Get(llm.response)), 1)
         IN  IF json_match = <<>>
             \* ValueError("No valid JSON found in response")
             THEN Returns(_basic_match_keywords(resume_keywords, job_keywords))
             ELSE IF ~json_loads(json_match[1]).ok
             \* json.JSONDecodeError
             THEN Returns(_basic_match_keywords(resume_keywords, job_keywords))
             ELSE IF \E k \in {"exact_matches", "semantic_matches", "related_matches"} :
                        len_of(json_loads(json_match[1]).value, k) < 0
             \* len() raises TypeError: except Exception
             THEN Returns(_basic_match_keywords(resume_keywords, job_keywords))
             ELSE Returns(llm_result(json_loads(json_match[1]).value, job_keywords))

\* the other public methods: they read use_llm and llm_client as match_keywords
\* does, calculate_keyword_density reads neither
other_methods ==
    {"extract_contextual_keywords", "calculate_keyword_density", "find_skill_variations",
     "score_keyword_relevance", "analyze_skill_gaps"}

\* whether the method calls self.llm_client.generate
calls_llm(self, method) ==
    method # "calculate_keyword_density" /\ self.use_llm /\ self.llm_client # "None"

----------------------------------------------------------------------------
(* ResumeParser *)

\* the patterns of _extract_contact_info
email_pattern ==
    Cat(<<WordB, Greedy("email_name", 1), Lit(<<"@">>), Greedy("email_host", 1), Lit(<<".">>),
          Greedy("email_end", 2), WordB>>)
phone_pattern ==
    Cat(<<Opt(Grp(1, Cat(<<Opt(Lit(<<"+">>)), Lit(<<"1">>), Opt(One("phone_sep"))>>))),
          Opt(Lit(<<"(">>)), One("digit"), One("digit"), One("digit"), Opt(Lit(<<")">>)),
          Opt(One("phone_sep")), One("digit"), One("digit"), One("digit"),
          Opt(One("phone_sep")), One("digit"), One("digit"), One("digit"), One("digit")>>)
linkedin_pattern == Cat(<<Lit(<<"l","i","n","k","e","d","i","n",".","c","o","m","/","i","n","/">>), Greedy("word_dash", 1)>>)
github_pattern == Cat(<<Lit(<<"g","i","t","h","u","b",".","c","o","m","/">>), Greedy("word_dash", 1)>>)

\* re.search(pattern, text).group(), None (<<>>) when there is no match
searched(pattern, text) ==
    With(Take(FindAll(pattern, text), 1), LAMBDA found :
        IF found = <<>> THEN <<>> ELSE found[1])

\* _extract_contact_info(text) with a phone pattern that wants the country code
_extract_contact_info_country_code(text) ==
    [email |-> searched(email_pattern, text),
     phone |-> searched(Cat(<<Lit(<<"+","1">>), phone_pattern>>), text),
     linkedin |-> searched(linkedin_pattern, text),
     github |-> searched(github_pattern, text)]

\* _extract_contact_info(text)
_extract_contact_info(text) ==
    [email |-> searched(email_pattern, text),
     phone |-> searched(phone_pattern, text),
     linkedin |-> searched(linkedin_pattern, text),
     github |-> searched(github_pattern, text)]

\* skill_variations of _extract_skills
resume_skill_variations ==
    <<<<<<"J","a","v","a","S","c","r","i","p","t">>, <<<<"J","S">>, <<"E","C","M","A","S","c","r","i","p","t">>>>>>,
      <<<<"T","y","p","e","S","c","r","i","p","t">>, <<<<"T","S">>>>>>,
      <<<<"R","e","a","c","t">>, <<<<"R","e","a","c","t","J","S">>, <<"R","e","a","c","t",".","j","s">>>>>>,
      <<<<"A","n","g","u","l","a","r">>, <<<<"A","n","g","u","l","a","r","J","S">>>>>>,
      <<<<"N","o","d","e",".","j","s">>, <<<<"N","o","d","e","J","S">>, <<"N","o","d","e">>>>>>,
      <<<<"H","T","M","L">>, <<<<"H","T","M","L","5">>>>>>,
      <<<<"C","S","S">>, <<<<"C","S","S","3">>>>>>,
      <<<<"A","W","S">>, <<<<"A","m","a","z","o","n"," ","W","e","b"," ","S","e","r","v","i","c","e","s">>>>>>,
      <<<<"G","C","P">>, <<<<"G","o","o","g","l","e"," ","C","l","o","u","d"," ","P","l","a","t","f","o","r","m">>, <<"G","o","o","g","l","e"," ","C","l","o","u","d">>>>>>,
      <<<<"M","a","c","h","i","n","e"," ","L","e","a","r","n","i","n","g">>, <<<<"M","L">>>>>>,
      <<<<"A","r","t","i","f","i","c","i","a","l"," ","I","n","t","e","l","l","i","g","e","n","c","e">>, <<<<"A","I">>>>>>,
      <<<<"R","E","S","T"," ","A","P","I">>, <<<<"R","E","S","T","f","u","l"," ","A","P","I">>, <<"R","E","S","T"," ","A","P","I","s">>>>>>,
      <<<<"G","r","a","p","h","Q","L">>, <<<<"G","r","a","p","h"," ","Q","L">>>>>>,
      <<<<"D","o","c","k","e","r">>, <<<<"C","o","n","t","a","i","n","e","r","i","z","a","t","i","o","n">>>>>>,
      <<<<"K","u","b","e","r","n","e","t","e","s">>, <<<<"K","8","s">>>>>>,
      <<<<"C","I","/","C","D">>, <<<<"C","o","n","t","i","n","u","o","u","s"," ","I","n","t","e","g","r","a","t","i","o","n">>, <<"C","o","n","t","i","n","u","o","u","s"," ","D","e","p","l","o","y","m","e","n","t">>>>>>>>

\* _extract_skills(text): the skills of the dictionary that are in the text, then
\* the skills one of whose variations is, each once
_extract_skills(text) ==
    With(Lower(text), LAMBDA text_lower :
        LET dictionary == hard_skills \o soft_skills
            found_skills == SelectSeq(dictionary, LAMBDA skill : _skill_in_text(skill, text_lower))
            varied ==
                SelectSeq(resume_skill_variations,
                          LAMBDA v : \E i \in DOMAIN v[2] : _skill_in_text(v[2][i], text_lower))
            kept == Unique(found_skills \o [i \in DOMAIN varied |-> varied[i][1]])
        IN  [i \in DOMAIN kept |-> kept[i][2]])

\* action_verbs of _extract_keywords
action_verbs ==
    <<<<"m","a","n","a","g","e","d">>, <<"d","e","v","e","l","o","p","e","d">>, <<"c","r","e","a","t","e","d">>, <<"i","m","p","l","e","m","e","n","t","e","d">>, <<"d","e","s","i","g","n","e","d">>,
      <<"a","n","a","l","y","z","e","d">>, <<"i","m","p","r","o","v","e","d">>, <<"a","c","h","i","e","v","e","d">>, <<"l","e","d">>, <<"c","o","o","r","d","i","n","a","t","e","d">>>>

\* _extract_keywords(text)
_extract_keywords(text) ==
    With(Lower(text), LAMBDA text_lower :
        SelectSeq(action_verbs, LAMBDA verb : Contains(text_lower, verb)))

\* _extract_information(text): the records it can return; list(set(...)) gives
\* the hard and the soft skills in any order.  _extract_experience and
\* _extract_education return [].
_extract_information(text) ==
    With(_extract_skills(text), LAMBDA found_skills :
        With(<<categorize_skills(found_skills), extract_categorized_skills_from_text(text),
               _extract_contact_info(text), _extract_keywords(text)>>, LAMBDA parts :
            {[raw_text |-> Val(text),
              contact_info |-> Val(parts[3]),
              skills |-> Val(found_skills),
              hard_skills |-> Val(hard),
              soft_skills |-> Val(soft),
              experience |-> Val(<<>>),
              education |-> Val(<<>>),
              keywords |-> Val(parts[4]),
              file_name |-> Absent(<<>>),
              file_format |-> Absent(<<>>)] :
                hard \in Orders(Range(parts[1].hard_skills \o parts[2].hard_skills)),
                soft \in Orders(Range(parts[1].soft_skills \o parts[2].soft_skills))}))

\* self.parsers: the extensions and the parser of each
parsers ==
    <<[extension |-> <<".","p","d","f">>, parser |-> "PDFParser"],
      [extension |-> <<".","d","o","c","x">>, parser |-> "DOCXParser"],
      [extension |-> <<".","d","o","c">>, parser |-> "DOCXParser"],
      [extension |-> <<".","t","x","t">>, parser |-> "TextParser"]>>

\* Path(file_path).name
path_name(file_path) ==
    LET cuts == {i \in DOMAIN file_path : file_path[i] = "/"}
    IN  IF cuts = {} THEN file_path
        ELSE SubSeq(file_path, (CHOOSE i \in cuts : \A j \in cuts : j <= i) + 1, Len(file_path))

\* Path(file_path).suffix: the name from its last dot on, when the dot is neither
\* its first nor its last character
suffix(file_path) ==
    LET n == path_name(file_path)
        dots == {i \in DOMAIN n : n[i] = "."}
        last == IF dots = {} THEN 0 ELSE CHOOSE i \in dots : \A j \in dots : j <= i
    IN  IF last > 1 /\ last < Len(n) THEN SubSeq(n, last, Len(n)) ELSE <<>>

\* what is at a path: nothing, or a file from which parser.extract_text gets a
\* text, or one on which it raises
Missing == [exists |-> FALSE, readable |-> FALSE, text |-> <<>>]
FileOf(text) == [exists |-> TRUE, readable |-> TRUE, text |-> text]
Unreadable == [exists |-> TRUE, readable |-> FALSE, text |-> <<>>]

Raised(error, message, extractors) ==
    [status |-> "raised", error |-> error, message |-> message, extractors |-> extractors]

\* ResumeParser.parse(file_path) with the extension looked up before the path
ResumeParser_parse_extension_first(file_path, file) ==
    LET extension == Lower(suffix(file_path))
        found == SelectSeq(parsers, LAMBDA p : p.extension = extension)
    IN  IF found = <<>>
        THEN {Raised("ValueError", <<"U","n","s","u","p","p","o","r","t","e","d"," ","f","i","l","e"," ","f","o","r","m","a","t",":"," ">> \o extension, <<>>)}
        ELSE IF ~file.exists
        THEN {Raised("FileNotFoundError", <<"R","e","s","u","m","e"," ","f","i","l","e"," ","n","o","t"," ","f","o","u","n","d",":"," ">> \o file_path, <<>>)}
        ELSE IF ~file.readable
        THEN {Raised("Exception", <<>>, <<found[1].parser>>)}
        ELSE {[status |-> "returned",
               value |-> [parsed_data EXCEPT !.file_name = Val(path_name(file_path)),
                                             !.file_format = Val(extension)],
               extractors |-> <<found[1].parser>>] :
                   parsed_data \in _extract_information(file.text)}

\* ResumeParser.parse(file_path), file the thing at the path: what the call can
\* come to, with the parsers whose extract_text it called
ResumeParser_parse(file_path, file) ==
    IF ~file.exists
    THEN {Raised("FileNotFoundError", <<"R","e","s","u","m","e"," ","f","i","l","e"," ","n","o","t"," ","f","o","u","n","d",":"," ">> \o file_path, <<>>)}
    ELSE LET extension == Lower(suffix(file_path))
             found == SelectSeq(parsers, LAMBDA p : p.extension = extension)
         IN  IF found = <<>>
             THEN {Raised("ValueError", <<"U","n","s","u","p","p","o","r","t","e","d"," ","f","i","l","e"," ","f","o","r","m","a","t",":"," ">> \o extension, <<>>)}
             ELSE IF ~file.readable
             THEN {Raised("Exception", <<>>, <<found[1].parser>>)}
             ELSE {[status |-> "returned",
                    value |-> [parsed_data EXCEPT !.file_name = Val(path_name(file_path)),
                                                  !.file_format = Val(extension)],
                    extractors |-> <<found[1].parser>>] :
                        parsed_data \in _extract_information(file.text)}
----------------------------------------------------------------------------
(* The records the runs score *)

MkResume(raw_text, skills, hard, soft, contact_info, file_format) ==
    [raw_text |-> raw_text, skills |-> skills, hard_skills |-> hard,
     soft_skills |-> soft, contact_info |-> contact_info, file_format |-> file_format]

Word(k, n) == [keyword |-> k, frequency |-> n]

\* sample_resume_data of the unit tests
SampleResume ==
    MkResume(Val(<<"P","y","t","h","o","n"," ","d","e","v","e","l","o","p","e","r"," ","w","i","t","h"," ","D","j","a","n","g","o"," ","e","x","p","e","r","i","e","n","c","e","."," ","A","W","S"," ","c","e","r","t","i","f","i","e","d",".">>),
             Val(<<<<"P","y","t","h","o","n">>, <<"D","j","a","n","g","o">>, <<"A","W","S">>, <<"G","i","t">>>>),
             Absent(<<>>), Absent(<<>>),
             Val([email |-> <<"t","e","s","t","@","e","x","a","m","p","l","e",".","c","o","m">>, phone |-> <<"5","5","5","-","1","2","3","4">>,
                  linkedin |-> <<"l","i","n","k","e","d","i","n",".","c","o","m","/","i","n","/","t","e","s","t">>]),
             Val(<<".","p","d","f">>))

SampleKeywords ==
    [single_words |-> <<Word(<<"P","y","t","h","o","n">>, 5), Word(<<"D","j","a","n","g","o">>, 3), Word(<<"d","e","v","e","l","o","p","e","r">>, 4)>>,
     phrases |-> <<<<"w","e","b"," ","d","e","v","e","l","o","p","m","e","n","t">>, <<"t","e","a","m"," ","c","o","l","l","a","b","o","r","a","t","i","o","n">>>>]

\* sample_job_data of the unit tests
SampleJob ==
    [EmptyJob EXCEPT
        !.required_skills = Val(<<<<"P","y","t","h","o","n">>, <<"D","j","a","n","g","o">>, <<"S","Q","L">>>>),
        !.keywords = Val(SampleKeywords),
        !.experience_required = Val([level |-> <<"m","i","d">>, years |-> <<"3">>]),
        !.education_required =
            Val([degree_level |-> <<"b","a","c","h","e","l","o","r">>,
                 field_of_study |-> <<<<"c","o","m","p","u","t","e","r"," ","s","c","i","e","n","c","e">>>>,
                 certifications |-> <<>>])]

\* the lines resume texts are made of
Fragments ==
    <<<<"S","e","n","i","o","r"," ","P","y","t","h","o","n"," ","D","e","v","e","l","o","p","e","r">>,
      <<"5","+"," ","y","e","a","r","s"," ","e","x","p","e","r","i","e","n","c","e">>,
      <<"E","d","u","c","a","t","i","o","n",":"," ","B","a","c","h","e","l","o","r",","," ","C","o","m","p","u","t","e","r"," ","S","c","i","e","n","c","e">>,
      <<"S","k","i","l","l","s",":"," ","D","j","a","n","g","o",","," ","A","W","S">>,
      <<"j","u","n","i","o","r"," ","a","n","a","l","y","s","t",","," ","2"," ","y","e","a","r","s">>>>

Filler == [i \in 1..100 |-> "x"]

RECURSIVE JoinLines(_)
\* "\n".join(lines)
JoinLines(lines) ==
    IF Len(lines) = 0 THEN <<>>
    ELSE IF Len(lines) = 1 THEN lines[1]
    ELSE lines[1] \o <<"\n">> \o JoinLines(Tail(lines))

\* the text of the fragments picked, in order, followed by pad filler blocks
TextOf(picked, pad) ==
    LET lines == SelectSeq([i \in DOMAIN Fragments |-> <<i, Fragments[i]>>],
                           LAMBDA e : e[1] \in picked)
    IN  JoinLines([i \in DOMAIN lines |-> lines[i][2]]
                  \o [i \in 1..pad |-> Filler])

Texts(from) == {TextOf(picked, 0) : picked \in SUBSET from}
PaddedTexts(from) == {TextOf(picked, pad) : picked \in SUBSET from, pad \in 0..MaxPadding}

ManyKeywords ==
    [single_words |->
        <<Word(<<"P","y","t","h","o","n">>, 9), Word(<<"S","e","n","i","o","r">>, 8), Word(<<"D","e","v","e","l","o","p","e","r">>, 7), Word(<<"y","e","a","r","s">>, 6),
          Word(<<"e","x","p","e","r","i","e","n","c","e">>, 5), Word(<<"K","u","b","e","r","n","e","t","e","s">>, 5), Word(<<"T","e","r","r","a","f","o","r","m">>, 4),
          Word(<<"G","o","l","a","n","g">>, 3), Word(<<"R","u","s","t">>, 2), Word(<<"S","c","a","l","a">>, 2), Word(<<"D","j","a","n","g","o">>, 1)>>,
     phrases |-> <<<<"m","a","c","h","i","n","e"," ","l","e","a","r","n","i","n","g">>, <<"f","u","l","l"," ","s","t","a","c","k">>, <<"y","e","a","r","s"," ","e","x","p","e","r","i","e","n","c","e">>,
                   <<"d","a","t","a"," ","s","c","i","e","n","c","e">>, <<"w","e","b"," ","d","e","v","e","l","o","p","m","e","n","t">>, <<"p","y","t","h","o","n"," ","d","e","v","e","l","o","p","e","r">>>>]

KeywordOptions ==
    {Absent(NoKeywords), None(NoKeywords), Val(NoKeywords), Val(SampleKeywords),
     Val(ManyKeywords),
     Val([single_words |-> <<Word(<<"K","u","b","e","r","n","e","t","e","s">>, 2)>>, phrases |-> <<>>]),
     Val([single_words |-> <<Word(<<"p","y","t","h","o","n">>, 2), Word(<<"R","u","s","t">>, 2), Word(<<"A","W","S">>, 1)>>,
          phrases |-> <<>>])}

SkillLists ==
    {<<>>, <<<<"P","y","t","h","o","n">>>>, <<<<"p","y","t","h","o","n">>, <<"D","j","a","n","g","o">>>>, <<<<"P","y","t","h","o","n">>, <<"P","Y","T","H","O","N">>, <<"S","Q","L">>>>,
     <<<<"D","o","c","k","e","r">>, <<"A","W","S">>, <<"S","Q","L">>>>, <<<<"P","y","t","h","o","n">>, <<"A","W","S">>>>}

SoftSkillLists ==
    {<<>>, <<<<"L","e","a","d","e","r","s","h","i","p">>>>, <<<<"l","e","a","d","e","r","s","h","i","p">>, <<"C","o","m","m","u","n","i","c","a","t","i","o","n">>>>}

LevelOptions == {<<>>, <<"e","n","t","r","y">>, <<"m","i","d">>, <<"s","e","n","i","o","r">>, <<"e","x","e","c","u","t","i","v","e">>, <<"S","e","n","i","o","r">>}
YearsOptions == {<<>>, <<"3">>, <<"5","-","7">>, <<"1","2">>, <<"3","+">>}

EducationOptions ==
    {NoEducation,
     [degree_level |-> <<"b","a","c","h","e","l","o","r">>, field_of_study |-> <<<<"c","o","m","p","u","t","e","r"," ","s","c","i","e","n","c","e">>>>,
      certifications |-> <<>>],
     [degree_level |-> <<"b","a","c","h","e","l","o","r">>, field_of_study |-> <<<<"c","o","m","p","u","t","e","r"," ","s","c","i","e","n","c","e">>>>,
      certifications |-> <<<<"A","W","S">>, <<"D","j","a","n","g","o">>>>],
     [degree_level |-> <<"m","a","s","t","e","r">>, field_of_study |-> <<<<"P","h","y","s","i","c","s">>, <<"C","o","m","p","u","t","e","r"," ","S","c","i","e","n","c","e">>>>,
      certifications |-> <<<<"A","W","S">>, <<"D","j","a","n","g","o">>, <<"P","M","P">>>>],
     [degree_level |-> <<"p","h","d">>, field_of_study |-> <<>>,
      certifications |-> <<<<"A","W","S">>, <<"P","y","t","h","o","n">>, <<"D","j","a","n","g","o">>>>],
     [degree_level |-> <<"d","i","p","l","o","m","a">>, field_of_study |-> <<<<"b","i","o","l","o","g","y">>>>,
      certifications |-> <<<<"A","W","S">>>>]}

TitleOptions ==
    {<<>>, <<"U","n","k","n","o","w","n"," ","P","o","s","i","t","i","o","n">>, <<"S","e","n","i","o","r"," ","P","y","t","h","o","n"," ","D","e","v","e","l","o","p","e","r">>, <<"H","e","a","d"," ","o","f"," ","D","a","t","a">>,
     <<"D","e","v","e","l","o","p","e","r"," ","f","o","r"," ","t","h","e"," ","W","e","b">>, <<"Q","A">>}

ContactOptions ==
    {NoContact,
     [email |-> <<"a","@","b",".","c","o","m">>, phone |-> <<>>, linkedin |-> <<>>],
     [email |-> <<>>, phone |-> <<"5","5","5","-","1","2","3","4">>, linkedin |-> <<"l","i","n","k","e","d","i","n",".","c","o","m","/","i","n","/","a">>],
     [email |-> <<"a","@","b",".","c","o","m">>, phone |-> <<"5","5","5","-","1","2","3","4">>, linkedin |-> <<>>],
     [email |-> <<"a","@","b",".","c","o","m">>, phone |-> <<"5","5","5","-","1","2","3","4">>, linkedin |-> <<"l","i","n","k","e","d","i","n",".","c","o","m","/","i","n","/","a">>]}

FormatOptions == {Absent(<<>>), None(<<>>), Val(<<".","p","d","f">>), Val(<<".","d","o","c","x">>), Val(<<".","t","x","t">>),
                  Val(<<".","P","D","F">>)}

\* requests that vary what one component reads, the rest as in the unit tests
KeywordRequests ==
    {<<[SampleResume EXCEPT !.raw_text = Val(t)], [SampleJob EXCEPT !.keywords = k]>> :
        t \in Texts({1, 2}), k \in KeywordOptions}

HardSkillRequests ==
    {<<[SampleResume EXCEPT !.hard_skills = Val(h)],
       [SampleJob EXCEPT !.required_hard_skills = Val(r), !.preferred_hard_skills = Val(p),
                         !.all_hard_skills = Val(a)]>> :
        h \in SkillLists, r \in SkillLists, p \in {<<>>, <<<<"A","W","S">>, <<"D","o","c","k","e","r">>>>, <<<<"S","Q","L">>>>},
        a \in {<<>>, <<<<"P","y","t","h","o","n">>, <<"R","u","s","t">>>>}}

SoftSkillRequests ==
    {<<[SampleResume EXCEPT !.soft_skills = Val(h)],
       [SampleJob EXCEPT !.required_soft_skills = Val(r), !.preferred_soft_skills = Val(p),
                         !.all_soft_skills = Val(a)]>> :
        h \in SoftSkillLists, r \in SoftSkillLists, p \in {<<>>, <<<<"T","e","a","m","w","o","r","k">>>>},
        a \in {<<>>, <<<<"L","e","a","d","e","r","s","h","i","p">>, <<"T","e","a","m","w","o","r","k">>>>}}

TitleRequests ==
    {<<[SampleResume EXCEPT !.raw_text = Val(t)], [SampleJob EXCEPT !.job_title = Val(j)]>> :
        t \in Texts({1, 5}), j \in TitleOptions}

ExperienceRequests ==
    {<<[SampleResume EXCEPT !.raw_text = Val(t)],
       [SampleJob EXCEPT !.experience_required = Val([level |-> l, years |-> y])]>> :
        t \in Texts({1, 2, 5}), l \in LevelOptions, y \in YearsOptions}

EducationRequests ==
    {<<[SampleResume EXCEPT !.raw_text = Val(t)],
       [SampleJob EXCEPT !.education_required = Val(e)]>> :
        t \in Texts({3, 4}), e \in EducationOptions}

FormattingRequests ==
    {<<[SampleResume EXCEPT !.raw_text = Val(t), !.file_format = f, !.contact_info = Val(c)],
       SampleJob>> :
        t \in PaddedTexts({2, 3, 4}), f \in FormatOptions, c \in ContactOptions}

MissingSkillRequests ==
    {<<[SampleResume EXCEPT !.skills = Val(s), !.hard_skills = Val(h)],
       [SampleJob EXCEPT !.required_skills = Val(r)]>> :
        s \in {<<>>, <<<<"J","S">>, <<"R","e","a","c","t",".","j","s">>>>, <<<<" ","P","y","t","h","o","n"," ">>, <<"A","m","a","z","o","n"," ","W","e","b"," ","S","e","r","v","i","c","e","s">>>>},
        h \in {<<>>, <<<<"J","a","v","a">>>>},
        r \in {<<>>, <<<<"J","a","v","a","S","c","r","i","p","t">>, <<"R","e","a","c","t">>, <<"A","W","S">>, <<"G","o">>, <<"P","y","t","h","o","n">>>>,
               <<<<"J","a","v","a","s","c","r","i","p","t">>, <<"M","L">>>>}}

\* the dict given with nothing, or with little, in it
SparseRequests ==
    {<<[EmptyResume EXCEPT !.raw_text = t, !.skills = s], j>> :
        t \in {Absent(<<>>), Val(<<>>)}, s \in {Absent(<<>>), Val(<<>>)},
        j \in {EmptyJob, SampleJob}}

\* the requests a caller turns to after its first
FollowUpRequests ==
    {<<[EmptyResume EXCEPT !.raw_text = Val(<<>>), !.skills = Val(<<>>)], EmptyJob>>,
     <<SampleResume, SampleJob>>}

\* requests that are weak or strong in each component at once
MixedRequests ==
    {<<MkResume(Val(t), Val(s), Val(s), Val(<<>>), Val(c), f),
       [SampleJob EXCEPT !.keywords = Val(k), !.required_skills = Val(r),
                         !.required_hard_skills = Val(r)]>> :
        t \in {TextOf({}, 0), TextOf({1, 2, 3, 4}, 1)},
        s \in {<<>>, <<<<"P","y","t","h","o","n">>, <<"D","j","a","n","g","o">>, <<"S","Q","L">>>>},
        c \in {NoContact, [email |-> <<"a","@","b",".","c","o","m">>, phone |-> <<"5","5","5","-","1","2","3","4">>,
                           linkedin |-> <<"l","i","n","k","e","d","i","n",".","c","o","m","/","i","n","/","a">>]},
        f \in {Val(<<".","p","d","f">>), Val(<<".","t","x","t">>)},
        k \in {SampleKeywords, ManyKeywords},
        r \in {<<>>, <<<<"P","y","t","h","o","n">>, <<"D","j","a","n","g","o">>, <<"S","Q","L">>>>,
               <<<<"R","u","s","t">>, <<"G","o","l","a","n","g">>, <<"S","c","a","l","a">>, <<"K","o","t","l","i","n">>>>}}

\* requests of a resume that answers the whole job
StrongRequests ==
    {<<[SampleResume EXCEPT !.raw_text = Val(TextOf({1, 2, 3, 4}, 1)), !.contact_info = Val(c)],
       [SampleJob EXCEPT !.required_skills = Val(<<<<"P","y","t","h","o","n">>, <<"D","j","a","n","g","o">>>>),
                         !.keywords = Val(k)]>> :
        c \in ContactOptions,
        k \in {[single_words |-> <<Word(<<"P","y","t","h","o","n">>, 2), Word(<<"D","j","a","n","g","o">>, 1)>>,
                phrases |-> <<<<"y","e","a","r","s"," ","e","x","p","e","r","i","e","n","c","e">>>>],
               SampleKeywords}}

ResumeKeys == {"raw_text", "skills", "hard_skills", "soft_skills", "contact_info", "file_format"}
JobKeys == {"keywords", "required_skills", "required_hard_skills", "preferred_hard_skills",
            "all_hard_skills", "required_soft_skills", "preferred_soft_skills",
            "all_soft_skills", "job_title", "experience_required", "education_required"}

\* requests in which one key is missing or holds None
MalformedRequests ==
    {<<[r EXCEPT ![k] = [st |-> m, v |-> EmptyResume[k].v]], j>> :
        r \in {EmptyResume, SampleResume}, j \in {EmptyJob, SampleJob}, k \in ResumeKeys,
        m \in {"absent", "none"}}
    \cup
    {<<r, [j EXCEPT ![k] = [st |-> m, v |-> EmptyJob[k].v]]>> :
        r \in {EmptyResume, SampleResume}, j \in {EmptyJob, SampleJob}, k \in JobKeys,
        m \in {"absent", "none"}}

Requests ==
    KeywordRequests \cup HardSkillRequests \cup SoftSkillRequests \cup TitleRequests
    \cup ExperienceRequests \cup EducationRequests \cup FormattingRequests
    \cup MissingSkillRequests \cup SparseRequests \cup MixedRequests \cup StrongRequests
    \cup MalformedRequests


----------------------------------------------------------------------------
(* The arguments of the calls of the text utilities and the job descriptions *)

\* skills that meet each rule of _classify_skill, and the rules before it
SkillPool ==
    <<<<"P","y","t","h","o","n">>, <<"L","e","a","d","e","r","s","h","i","p">>, <<"B","l","o","r","f">>, <<" ","p","y","t","h","o","n"," ">>, <<"S","Q","L"," ","D","a","t","a","b","a","s","e"," ","D","e","s","i","g","n">>,
      <<"T","e","a","m"," ","s","k","i","l","l","s">>, <<"W","e","b"," ","c","o","m","m","u","n","i","c","a","t","i","o","n"," ","s","k","i","l","l","s">>, <<"F","r","a","m","e","w","o","r","k","s">>,
      <<"L","e","a","d","e","r","s","h","i","p"," ","q","u","a","l","i","t","i","e","s">>, <<"L","a","n","g","u","a","g","e"," ","l","e","a","d","e","r","s","h","i","p">>, <<"P","r","o","j","e","c","t"," ","M","a","n","a","g","e","m","e","n","t">>,
      <<"C","r","e","a","t","i","v","e"," ","c","o","d","i","n","g">>>>

RECURSIVE ListsOver(_, _)
\* the lists of at most n items of pool
ListsOver(pool, n) ==
    IF n = 0 THEN {<<>>}
    ELSE ListsOver(pool, n - 1)
         \cup {Append(l, x) : l \in {m \in ListsOver(pool, n - 1) : Len(m) = n - 1}, x \in pool}

SkillInputs ==
    ListsOver(Range(SkillPool), MaxSkills) \cup {<<<<"P","y","t","h","o","n">>, <<"L","e","a","d","e","r","s","h","i","p">>, <<"B","l","o","r","f">>>>}

SkillTexts ==
    {<<"I"," ","u","s","e"," ","J","a","v","a">>, <<"I"," ","u","s","e"," ","J","a","v","a","s","c","r","i","p","t">>, <<"I"," ","u","s","e"," ","C","+","+"," ","d","a","i","l","y">>, <<"C","#"," ","a","n","d"," ","C","I","/","C","D">>,
     <<"c","+","+","x"," ","a","n","d"," ","c","#","y">>, <<"N","o","d","e",".","j","s",","," ","R","e","a","c","t">>, <<"n","o","d","e","x","j","s">>, <<"u","n","i","t"," ","t","e","s","t","i","n","g"," ","i","n"," ","G","O",".">>,
     <<"R","/","P","y","t","h","o","n"," ","(","S","Q","L",")">>, <<>>}

\* words that tokenisation keeps, drops, splits or tells apart by case
WordPool == <<<<"P","y","t","h","o","n">>, <<"p","y","t","h","o","n">>, <<"T","h","e">>, <<"2","0","2","4">>, <<"S","Q","L",",","M","L">>>>

JoinWords(words) ==
    IF Len(words) = 0 THEN <<>>
    ELSE Flatten([i \in DOMAIN words |-> IF i = 1 THEN words[i] ELSE <<" ">> \o words[i]])

WordTexts == {JoinWords(l) : l \in ListsOver(Range(WordPool), MaxWords)}

\* the lines job descriptions are made of
Rule == [i \in 1..100 |-> "_"]

JobLines ==
    <<Rule,
      Take(Rule, 99) \o <<" ", " ">>,
      <<"S","e","n","i","o","r"," ","P","y","t","h","o","n"," ","D","e","v","e","l","o","p","e","r">>,
      <<"R","o","l","e",":"," ","J","u","n","i","o","r"," ","A","n","a","l","y","s","t">>,
      <<"R","e","q","u","i","r","e","d"," ","s","k","i","l","l","s",":"," ","P","y","t","h","o","n",","," ","D","j","a","n","g","o",","," ","t","e","a","m"," ","s","k","i","l","l","s">>,
      <<"N","i","c","e"," ","t","o"," ","h","a","v","e",":"," ","A","W","S"," ","a","n","d"," ","C","+","+"," ","(","s","e","e"," ","r","e","q","u","i","r","e","m","e","n","t","s",")">>,
      <<>>,
      <<"5"," ","t","o"," ","7"," ","y","e","a","r","s"," ","o","f"," ","e","x","p","e","r","i","e","n","c","e",","," ","A","W","S"," ","c","e","r","t","i","f","i","e","d">>,
      <<"B","a","c","h","e","l","o","r","'","s"," ","i","n"," ","C","o","m","p","u","t","e","r"," ","S","c","i","e","n","c","e">>>>

\* the job descriptions of at most MaxJobLines of these lines, in this order
JobTexts ==
    {JoinLines(SelectSeq(JobLines, LAMBDA line : line \in picked)) :
        picked \in {s \in SUBSET Range(JobLines) : Cardinality(s) <= MaxJobLines}}

\* the records of the resumes the analyses are scored against
ParsedResumes == {SampleResume, [SampleResume EXCEPT !.raw_text = Val(TextOf({1, 2, 3, 4}, 0))]}

\* job descriptions for RequirementsParser.parse: a section header and up to
\* MaxItems items, written as sentences, as bullet points or as a numbered list
SectionHeaders ==
    {<<"R","e","q","u","i","r","e","d"," ","s","k","i","l","l","s",":">>, <<"P","r","e","f","e","r","r","e","d",":">>, <<"R","e","s","p","o","n","s","i","b","i","l","i","t","i","e","s",":">>, <<"B","e","n","e","f","i","t","s",":">>,
     <<"W","e","'","r","e"," ","l","o","o","k","i","n","g"," ","f","o","r">>}
ItemPool == <<<<"P","y","t","h","o","n"," ","p","r","o","g","r","a","m","m","i","n","g">>, <<"a","n","d"," ","G","o">>, <<","," ","S","Q","L">>, <<"o","r"," ","C">>>>
ItemSeparators == {<<"."," ">>, <<"\n","-"," ">>, <<"\n","2",")"," ">>}

RECURSIVE JoinItems(_, _)
JoinItems(items, sep) ==
    IF Len(items) = 0 THEN <<>>
    ELSE IF Len(items) = 1 THEN items[1]
    ELSE items[1] \o sep \o JoinItems(Tail(items), sep)

ItemLists == UNION {[1..n -> Range(ItemPool)] : n \in 1..MaxItems}

\* an item of one character more than MaxItemLength, and one of MaxItemLength
LongItems == {[i \in 1..n |-> "x"] : n \in {MaxItemLength, MaxItemLength + 1}}

RequirementTexts ==
    {h \o <<" ">> \o JoinItems(l, sep) : h \in SectionHeaders, l \in ItemLists, sep \in ItemSeparators}
    \cup {<<"M","u","s","t"," ","h","a","v","e",":"," ">> \o l \o <<"\n","\n","B","o","n","u","s",":"," ","D","o","c","k","e","r",","," ","a","n","d"," ","m","o","r","e">> : l \in LongItems}

\* keyword lists for KeywordMatcher.match_keywords
ResumeKeywordPool == <<<<"P","y","t","h","o","n">>, <<"A","P","I">>, <<"D","o","c","k","e","r"," ","C","o","m","p","o","s","e">>>>
JobKeywordPool == <<<<"p","y","t","h","o","n">>, <<"A","P","I"," ","D","e","v","e","l","o","p","m","e","n","t">>, <<"D","o","c","k","e","r">>>>
ResumeKeywordLists == UNION {[1..n -> Range(ResumeKeywordPool)] : n \in 0..MaxResumeKeywords}
JobKeywordLists == UNION {[1..n -> Range(JobKeywordPool)] : n \in 0..MaxJobKeywords}

\* what a call of GroqClient.generate can do
LlmOutcomes == {GenerateRaises, Generates(None(<<>>))} \cup {Generates(Val(r)) : r \in Responses}

\* the keyword lists of the unit tests and of the manual test: <<resume, job>>
SampleKeywordLists ==
    {<<<<<<"P","y","t","h","o","n">>, <<"M","L">>, <<"C","o","n","t","a","i","n","e","r","s">>, <<"A","P","I"," ","D","e","v","e","l","o","p","m","e","n","t">>, <<"C","l","o","u","d"," ","C","o","m","p","u","t","i","n","g">>>>,
       <<<<"P","y","t","h","o","n">>, <<"M","a","c","h","i","n","e"," ","L","e","a","r","n","i","n","g">>, <<"D","o","c","k","e","r">>, <<"R","E","S","T"," ","A","P","I">>, <<"A","W","S">>>>>>,
     <<<<<<"P","y","t","h","o","n">>, <<"J","a","v","a","S","c","r","i","p","t">>, <<"R","e","a","c","t">>, <<"D","o","c","k","e","r">>, <<"A","W","S">>>>,
       <<<<"P","y","t","h","o","n">>, <<"N","o","d","e",".","j","s">>, <<"R","e","a","c","t">>, <<"K","u","b","e","r","n","e","t","e","s">>, <<"A","W","S">>>>>>}

\* resume texts and job texts for the run from a resume file to its score: the
\* two texts of the end-to-end scenario, a longer resume with every kind of
\* contact, an empty resume, a job with a section of required skills
ScenarioResume ==
    <<"P","y","t","h","o","n"," ","D","j","a","n","g","o"," ","d","e","v","e","l","o","p","e","r",","," ","5","+"," ","y","e","a","r","s"," ","e","x","p","e","r","i","e","n","c","e",","," ","e","m","a","i","l",":"," ","a","@","b",".","c","o","m",","," ","p","h","o","n","e",":"," ","5","5","5","-","1","2","3","-","4","5","6","7">>
ScenarioJob == <<"R","e","q","u","i","r","e","d"," ","s","k","i","l","l","s",":"," ","P","y","t","h","o","n",","," ","D","j","a","n","g","o","."," ","3","+"," ","y","e","a","r","s"," ","e","x","p","e","r","i","e","n","c","e"," ","r","e","q","u","i","r","e","d",".">>
ResumeTexts ==
    {ScenarioResume,
     <<"J","a","n","e"," ","D","o","e",","," ","S","e","n","i","o","r"," ","D","e","v","e","l","o","p","e","r","\n","j","a","n","e",".","d","o","e","@","m","a","i","l",".","e","x","a","m","p","l","e",".","o","r","g"," ","(","5","5","5",")"," ","1","2","3","-","4","5","6","7","\n","l","i","n","k","e","d","i","n",".","c","o","m","/","i","n","/","j","a","n","e","-","d","o","e"," ","g","i","t","h","u","b",".","c","o","m","/","j","a","n","e","\n","S","k","i","l","l","s",":"," ","J","S",","," ","K","8","s",","," ","t","e","a","m","w","o","r","k","\n","E","x","p","e","r","i","e","n","c","e",":"," ","l","e","d"," ","a"," ","t","e","a","m",","," ","6"," ","y","e","a","r","s","\n","E","d","u","c","a","t","i","o","n",":"," ","B","S","c">>,
     <<>>}
ResumeJobTexts ==
    {ScenarioJob,
     <<"S","e","n","i","o","r"," ","D","e","v","e","l","o","p","e","r","\n","R","e","q","u","i","r","e","d"," ","s","k","i","l","l","s",":"," ","P","y","t","h","o","n",","," ","S","Q","L","\n","\n","5"," ","y","e","a","r","s"," ","o","f"," ","e","x","p","e","r","i","e","n","c","e">>,
     <<>>}
FilePaths ==
    {<<"r","e","s","u","m","e",".","p","d","f">>, <<"R","e","s","u","m","e",".","P","D","F">>, <<"c","v",".","d","o","c","x">>, <<"o","l","d","/","c","v",".","d","o","c">>, <<"r","e","s","u","m","e",".","t","x","t">>, <<"r","e","s","u","m","e",".","m","d">>,
     <<"r","e","s","u","m","e">>, <<".","t","x","t">>, <<"c","v",".","t","a","r",".","g","z">>, <<"v","1",".","2","/","r","e","s","u","m","e">>}
Files == {Missing, Unreadable} \cup {FileOf(t) : t \in ResumeTexts}
----------------------------------------------------------------------------
(* The runs *)

NumScorers == 2
ScorerIds == 1..NumScorers

\* KeywordMatcher.__init__ that keeps the use_llm it was given when GroqClient(...) raises
KeywordMatcher_new_keeps_use_llm(similarity_threshold, use_llm, client_ok) ==
    [similarity_threshold |-> similarity_threshold,
     use_llm |-> use_llm,
     llm_client |-> IF use_llm /\ client_ok THEN "GroqClient" ELSE "None"]

\* KeywordMatcher.__init__(similarity_threshold, use_llm); client_ok: GroqClient(...)
\* did not raise
KeywordMatcher_new(similarity_threshold, use_llm, client_ok) ==
    [similarity_threshold |-> similarity_threshold,
     use_llm |-> use_llm /\ client_ok,
     llm_client |-> IF use_llm /\ client_ok THEN "GroqClient" ELSE "None"]

\* KeywordMatcher.__init__ with its defaults
KeywordMatcher_init(client_ok) == KeywordMatcher_new(85, TRUE, client_ok)

\* ATSScorer.__init__
ATSScorer_init(client_ok) ==
    [keyword_matcher |-> KeywordMatcher_init(client_ok),
     score_calculator |-> "ScoreCalculator"]

\* no call of SkillCategorizer or KeywordExtractor is made, or none has returned
NoCall == [fn |-> "none"]

\* no KeywordMatcher of its own was constructed
NotConstructed == [class |-> "none"]

\* ATSScorer.score on scorer s with the records of the current request
Score(s) ==
    /\ budget > 0
    /\ calls' = Append(calls, [scorer |-> s, resume_data |-> resume_data,
                               job_data |-> job_data,
                               result |-> score(scorers[s], resume_data, job_data)])
    /\ budget' = budget - 1
    /\ UNCHANGED <<matcher, scorers, resume_data, job_data, job_description, args, returned>>

\* the caller turns to another resume and job
NextRequest ==
    /\ budget > 0
    /\ Len(calls) > 0
    /\ \E q \in FollowUpRequests :
        /\ <<resume_data, job_data>> # q
        /\ resume_data' = q[1]
        /\ job_data' = q[2]
    /\ UNCHANGED <<matcher, scorers, budget, calls, job_description, args, returned>>

\* one scorer, one request, one call: the main() of the checker
Init ==
    /\ \E ok \in BOOLEAN : scorers = [s \in ScorerIds |-> ATSScorer_init(ok)]
    /\ matcher = NotConstructed
    /\ \E q \in Requests : resume_data = q[1] /\ job_data = q[2]
    /\ budget = 1
    /\ calls = <<>>
    /\ job_description = <<>> /\ args = NoCall /\ returned = NoCall

Next == \E s \in ScorerIds : Score(s)

Spec == Init /\ [][Next]_vars

\* several calls, on scorers built with and without an LLM client
InitCalls ==
    /\ scorers \in [ScorerIds -> {ATSScorer_init(TRUE), ATSScorer_init(FALSE)}]
    /\ matcher = NotConstructed
    /\ \E q \in FollowUpRequests :
        resume_data = q[1] /\ job_data = q[2]
    /\ budget = MaxCalls
    /\ calls = <<>>
    /\ job_description = <<>> /\ args = NoCall /\ returned = NoCall

NextCalls == (\E s \in ScorerIds : Score(s)) \/ NextRequest

SpecCalls == InitCalls /\ [][NextCalls]_vars



\* the runs of the two text utilities: one call, with arguments of the kind the
\* job analyzer hands them
IdleScorer ==
    /\ scorers = [s \in ScorerIds |-> ATSScorer_init(FALSE)]
    /\ matcher = NotConstructed
    /\ resume_data = EmptyResume /\ job_data = EmptyJob
    /\ budget = 0 /\ calls = <<>> /\ job_description = <<>>

\* SkillCategorizer.categorize_skills(skills)
CategorizeSkills ==
    /\ args.fn = "categorize_skills" /\ returned = NoCall
    /\ returned' = [fn |-> args.fn, value |-> categorize_skills(args.skills)]
    /\ UNCHANGED <<matcher, scorers, resume_data, job_data, budget, calls, job_description, args>>

\* SkillCategorizer._skill_in_text(skill, text)
SkillInText ==
    /\ args.fn = "_skill_in_text" /\ returned = NoCall
    /\ returned' = [fn |-> args.fn, value |-> _skill_in_text(args.skill, args.text)]
    /\ UNCHANGED <<matcher, scorers, resume_data, job_data, budget, calls, job_description, args>>

InitCategorizer ==
    /\ IdleScorer
    /\ args \in {[fn |-> "categorize_skills", skills |-> l] : l \in SkillInputs}
               \cup {[fn |-> "_skill_in_text", skill |-> s, text |-> t] :
                        s \in Range(hard_skills), t \in SkillTexts}
    /\ returned = NoCall

NextCategorizer == CategorizeSkills \/ SkillInText

SpecCategorizer == InitCategorizer /\ [][NextCategorizer]_vars

\* KeywordExtractor.extract(text, top_n)
Extract ==
    /\ args.fn = "extract" /\ returned = NoCall
    /\ returned' = [fn |-> args.fn, value |-> extract(args.text, args.top_n)]
    /\ UNCHANGED <<matcher, scorers, resume_data, job_data, budget, calls, job_description, args>>

InitExtractor ==
    /\ IdleScorer
    /\ args \in {[fn |-> "extract", text |-> t, top_n |-> n] : t \in WordTexts, n \in 0..MaxTopN}
    /\ returned = NoCall

NextExtractor == Extract

SpecExtractor == InitExtractor /\ [][NextExtractor]_vars

\* analyze_resume: the job text is analyzed, then the resume is scored against the
\* record of the analysis
NotAnalyzed == [st |-> "absent"]

\* job_data = analyzer.analyze(job_text)
Analyze ==
    /\ job_data = NotAnalyzed
    /\ job_data' \in analyze(job_description)
    /\ UNCHANGED <<matcher, scorers, resume_data, budget, calls, job_description, args, returned>>

\* score_result = scorer.score(resume_data, job_data)
ScoreAnalysis(s) == job_data # NotAnalyzed /\ Score(s)

InitAnalyze ==
    /\ scorers = [s \in ScorerIds |-> ATSScorer_init(FALSE)]
    /\ matcher = NotConstructed
    /\ resume_data \in ParsedResumes
    /\ job_description \in JobTexts
    /\ job_data = NotAnalyzed
    /\ budget = 1 /\ calls = <<>>
    /\ args = NoCall /\ returned = NoCall

NextAnalyze == Analyze \/ \E s \in ScorerIds : ScoreAnalysis(s)

SpecAnalyze == InitAnalyze /\ [][NextAnalyze]_vars

\* RequirementsParser.parse(text)
ParseRequirements ==
    /\ args.fn = "RequirementsParser.parse" /\ returned = NoCall
    /\ returned' = [fn |-> args.fn, value |-> RequirementsParser_parse(args.text)]
    /\ UNCHANGED <<matcher, scorers, resume_data, job_data, budget, calls, job_description, args>>

InitRequirements ==
    /\ IdleScorer
    /\ args \in {[fn |-> "RequirementsParser.parse", text |-> t] : t \in RequirementTexts}
    /\ returned = NoCall

NextRequirements == ParseRequirements

SpecRequirements == InitRequirements /\ [][NextRequirements]_vars

\* KeywordMatcher._basic_match_keywords(resume_keywords, job_keywords)
BasicMatchKeywords ==
    /\ args.fn = "_basic_match_keywords" /\ returned = NoCall
    /\ returned' = [fn |-> args.fn,
                    result |-> Returns(_basic_match_keywords(args.resume_keywords, args.job_keywords))]
    /\ UNCHANGED <<matcher, scorers, resume_data, job_data, budget, calls, job_description, args>>

\* KeywordMatcher.match_keywords(resume_keywords, job_keywords)
MatchKeywords ==
    /\ args.fn = "match_keywords" /\ returned = NoCall
    /\ returned' = [fn |-> args.fn,
                    result |-> match_keywords(matcher, args.resume_keywords, args.job_keywords,
                                              args.llm)]
    /\ UNCHANGED <<matcher, scorers, resume_data, job_data, budget, calls, job_description, args>>

\* one call of one of the two, on a matcher whose LLM client was constructed or
\* was not; the LLM does one of the things it can do when it is called
InitMatch ==
    /\ matcher \in {KeywordMatcher_new(85, use_llm, TRUE) : use_llm \in BOOLEAN}
    /\ scorers = [s \in ScorerIds |-> ATSScorer_init(FALSE)]
    /\ resume_data = EmptyResume /\ job_data = EmptyJob
    /\ budget = 0 /\ calls = <<>> /\ job_description = <<>>
    /\ \E resume_keywords \in ResumeKeywordLists, job_keywords \in JobKeywordLists :
          \/ args = [fn |-> "_basic_match_keywords", resume_keywords |-> resume_keywords,
                     job_keywords |-> job_keywords]
          \/ \E llm \in IF calls_llm(matcher, "match_keywords") THEN LlmOutcomes ELSE {NotCalled} :
                args = [fn |-> "match_keywords", resume_keywords |-> resume_keywords,
                        job_keywords |-> job_keywords, llm |-> llm]
    /\ returned = NoCall

NextMatch == BasicMatchKeywords \/ MatchKeywords

SpecMatch == InitMatch /\ [][NextMatch]_vars

\* matcher = KeywordMatcher(use_llm=use_llm)
Construct ==
    /\ matcher = NotConstructed
    /\ \E use_llm \in BOOLEAN, client_ok \in BOOLEAN :
          /\ matcher' = KeywordMatcher_new(85, use_llm, client_ok)
          /\ args' = [fn |-> "__init__", use_llm |-> use_llm, client_ok |-> client_ok]
    /\ returned' = NoCall
    /\ UNCHANGED <<scorers, resume_data, job_data, budget, calls, job_description>>

\* matcher.match_keywords(resume_keywords, job_keywords), on sample data
CallMatchKeywords ==
    /\ matcher # NotConstructed /\ budget > 0
    /\ \E sample \in SampleKeywordLists,
          llm \in IF calls_llm(matcher, "match_keywords") THEN LlmOutcomes ELSE {NotCalled} :
          /\ args' = [fn |-> "match_keywords", resume_keywords |-> sample[1],
                      job_keywords |-> sample[2], llm |-> llm]
          /\ returned' = [fn |-> "match_keywords",
                          result |-> match_keywords(matcher, sample[1], sample[2], llm)]
    /\ budget' = budget - 1
    /\ UNCHANGED <<matcher, scorers, resume_data, job_data, calls, job_description>>

\* a call of one of the other public methods of matcher; what it returns is
\* outside the model
CallOther(method) ==
    /\ matcher # NotConstructed /\ budget > 0
    /\ \E llm \in IF calls_llm(matcher, method) THEN {GenerateRaises, Generates(None(<<>>))}
                  ELSE {NotCalled} :
          /\ args' = [fn |-> method, llm |-> llm]
          /\ returned' = [fn |-> method]
    /\ budget' = budget - 1
    /\ UNCHANGED <<matcher, scorers, resume_data, job_data, calls, job_description>>

\* a matcher is constructed and its public methods are called, in any order
InitMatcher ==
    /\ matcher = NotConstructed
    /\ scorers = [s \in ScorerIds |-> ATSScorer_init(FALSE)]
    /\ resume_data = EmptyResume /\ job_data = EmptyJob
    /\ budget = MaxCalls /\ calls = <<>> /\ job_description = <<>>
    /\ args = NoCall /\ returned = NoCall

NextMatcher == Construct \/ CallMatchKeywords \/ \E method \in other_methods : CallOther(method)

SpecMatcher == InitMatcher /\ [][NextMatcher]_vars

\* the run of analyze_resume: the resume file is parsed, the job text analyzed,
\* the two records scored
NotParsed == [st |-> "absent"]

\* resume_data = parser.parse(resume_path)
ParseResume ==
    /\ args.fn = "ResumeParser.parse" /\ returned = NoCall
    /\ \E outcome \in ResumeParser_parse(args.file_path, args.file) :
          /\ returned' = [fn |-> args.fn, result |-> outcome]
          /\ resume_data' = IF outcome.status = "returned" THEN outcome.value ELSE resume_data
    /\ UNCHANGED <<matcher, scorers, job_data, budget, calls, job_description, args>>

\* resume_data = parser._extract_information(text)
ExtractInformation ==
    /\ args.fn = "_extract_information" /\ returned = NoCall
    /\ \E parsed_data \in _extract_information(args.text) :
          /\ returned' = [fn |-> args.fn,
                          result |-> [status |-> "returned", value |-> parsed_data,
                                      extractors |-> <<>>]]
          /\ resume_data' = parsed_data
    /\ UNCHANGED <<matcher, scorers, job_data, budget, calls, job_description, args>>

\* job_data = analyzer.analyze(job_text), once the resume is parsed
AnalyzeJob == resume_data # NotParsed /\ Analyze

\* score_result = scorer.score(resume_data, job_data)
ScoreParsed(s) == resume_data # NotParsed /\ ScoreAnalysis(s)

InitResume ==
    /\ scorers = [s \in ScorerIds |-> ATSScorer_init(FALSE)]
    /\ matcher = NotConstructed
    /\ resume_data = NotParsed
    /\ job_description \in ResumeJobTexts
    /\ job_data = NotAnalyzed
    /\ budget = 1 /\ calls = <<>>
    /\ args \in {[fn |-> "ResumeParser.parse", file_path |-> p, file |-> f] :
                    p \in FilePaths, f \in Files}
                \cup {[fn |-> "_extract_information", text |-> t] : t \in ResumeTexts}
    /\ returned = NoCall

NextResume == ParseResume \/ ExtractInformation \/ AnalyzeJob \/ \E s \in ScorerIds : ScoreParsed(s)

SpecResume == InitResume /\ [][NextResume]_vars

----------------------------------------------------------------------------
(* score() called from several threads on shared scorers and shared records *)

Threads == 1..NumThreads

\* the component scores of score(), lines 51-60
component_scores(resume, job) ==
    [keyword_score |-> _calculate_keyword_score(resume, job),
     hard_skills_score |-> _calculate_hard_skills_score(resume, job),
     soft_skills_score |-> _calculate_soft_skills_score(resume, job),
     job_title_score |-> _calculate_job_title_score(resume, job),
     skills_score |-> RAdd(RMul(_calculate_hard_skills_score(resume, job), Rat(7, 10)),
                           RMul(_calculate_soft_skills_score(resume, job), Rat(3, 10))),
     experience_score |-> _calculate_experience_score(resume, job),
     education_score |-> _calculate_education_score(resume, job),
     formatting_score |-> _calculate_formatting_score(resume)]

\* the ATSScore score() builds from its locals
ATSScore(s, overall_score, detailed_feedback, recommendations) ==
    [status |-> "returned",
     overall_score |-> Round2(overall_score),
     keyword_score |-> Round2(s.keyword_score),
     skills_score |-> Round2(s.skills_score),
     hard_skills_score |-> Round2(s.hard_skills_score),
     soft_skills_score |-> Round2(s.soft_skills_score),
     job_title_score |-> Round2(s.job_title_score),
     experience_score |-> Round2(s.experience_score),
     education_score |-> Round2(s.education_score),
     formatting_score |-> Round2(s.formatting_score),
     detailed_feedback |-> detailed_feedback,
     recommendations |-> recommendations]

\* the call of thread t ends: with an ATSScore, or with the exception that left it
Leave(t, result) ==
    /\ calls' = Append(calls, [scorer |-> args[t].scorer, resume_data |-> resume_data,
                               job_data |-> job_data, result |-> result])
    /\ returned' = [returned EXCEPT ![t] = [fn |-> "score", value |-> result]]
    /\ args' = [args EXCEPT ![t] = NoCall]

\* thread t calls score() on scorer s with the shared records
Enter(t, s) ==
    /\ budget > 0
    /\ args[t] = NoCall
    /\ args' = [args EXCEPT ![t] = [fn |-> "score", pc |-> "scores", scorer |-> s]]
    /\ budget' = budget - 1
    /\ UNCHANGED <<matcher, scorers, resume_data, job_data, calls, job_description, returned>>

\* lines 51-81: the component scores and their weighted sum, or the exception of a
\* record that holds a None
ComputeScores(t) ==
    /\ args[t].fn = "score" /\ args[t].pc = "scores"
    /\ IF Raises(resume_data, job_data)
       THEN Leave(t, [status |-> "raised"])
       ELSE /\ \E s \in {component_scores(resume_data, job_data)} :
                  args' = [args EXCEPT ![t] =
                      [fn |-> "score", pc |-> "feedback", scorer |-> args[t].scorer,
                       scores |-> s,
                       overall_score |->
                           weighted_sum(s.keyword_score, s.hard_skills_score,
                                        s.soft_skills_score, s.job_title_score,
                                        s.experience_score, s.education_score,
                                        s.formatting_score)]]
            /\ UNCHANGED <<calls, returned>>
    /\ UNCHANGED <<matcher, scorers, resume_data, job_data, budget, job_description>>

\* Feedback that also notes on the scorer that feedback was built
Feedback_noted_on_self(t) ==
    /\ args[t].fn = "score" /\ args[t].pc = "feedback"
    /\ \E s \in {args[t].scores} :
        \E f \in {_generate_detailed_feedback(resume_data, job_data, s.keyword_score,
                       s.skills_score, s.hard_skills_score, s.soft_skills_score,
                       s.job_title_score, s.experience_score, s.education_score,
                       s.formatting_score)} :
          /\ args' = [args EXCEPT ![t] =
                [fn |-> "score", pc |-> "recommendations", scorer |-> args[t].scorer,
                 scores |-> s, overall_score |-> args[t].overall_score,
                 detailed_feedback |-> f]]
          /\ scorers' = [scorers EXCEPT ![args[t].scorer].score_calculator = "ScoreCalculator, used"]
    /\ UNCHANGED <<matcher, resume_data, job_data, budget, calls, job_description, returned>>

\* lines 83-88: detailed_feedback = self._generate_detailed_feedback(...)
Feedback(t) ==
    /\ args[t].fn = "score" /\ args[t].pc = "feedback"
    /\ \E s \in {args[t].scores} :
          args' = [args EXCEPT ![t] =
              [fn |-> "score", pc |-> "recommendations", scorer |-> args[t].scorer,
               scores |-> s, overall_score |-> args[t].overall_score,
               detailed_feedback |->
                   _generate_detailed_feedback(resume_data, job_data, s.keyword_score,
                       s.skills_score, s.hard_skills_score, s.soft_skills_score,
                       s.job_title_score, s.experience_score, s.education_score,
                       s.formatting_score)]]
    /\ UNCHANGED <<matcher, scorers, resume_data, job_data, budget, calls, job_description, returned>>

\* lines 90-107: the recommendations, and the ATSScore returned
Recommend(t) ==
    /\ args[t].fn = "score" /\ args[t].pc = "recommendations"
    /\ Leave(t, ATSScore(args[t].scores, args[t].overall_score, args[t].detailed_feedback,
                         _generate_recommendations(resume_data, job_data,
                                                   args[t].detailed_feedback)))
    /\ UNCHANGED <<matcher, scorers, resume_data, job_data, budget, job_description>>

\* the records the threads share: without data, a sample, and one whose raw_text is None
ThreadRequests ==
    FollowUpRequests \cup {<<[SampleResume EXCEPT !.raw_text = None(<<>>)], SampleJob>>}

InitThreads ==
    /\ scorers = [s \in ScorerIds |-> ATSScorer_init(s = 1)]
    /\ matcher = NotConstructed
    /\ \E q \in ThreadRequests :
          resume_data = q[1] /\ job_data = q[2]
    /\ budget = NumThreads
    /\ calls = <<>>
    /\ job_description = <<>>
    /\ args = [t \in Threads |-> NoCall]
    /\ returned = [t \in Threads |-> NoCall]

NextThreads ==
    \E t \in Threads :
        \/ \E s \in ScorerIds : Enter(t, s)
        \/ ComputeScores(t)
        \/ Feedback(t)
        \/ Recommend(t)

SpecThreads == InitThreads /\ [][NextThreads]_vars
----------------------------------------------------------------------------
(* Properties of ATSScorer.score *)

ScoreFields ==
    {"overall_score", "keyword_score", "skills_score", "hard_skills_score",
     "soft_skills_score", "job_title_score", "experience_score", "education_score",
     "formatting_score"}

ReturnedCalls == {i \in DOMAIN calls : calls[i].result.status = "returned"}

\* score({raw_text: "", skills: []}, {})
NoDataResume == [EmptyResume EXCEPT !.raw_text = Val(<<>>), !.skills = Val(<<>>)]
NoDataCalls ==
    {i \in DOMAIN calls : calls[i].resume_data = NoDataResume /\ calls[i].job_data = EmptyJob}

LowerSet(list) == {Lower(list[i]) : i \in DOMAIN list}
First(s, n) == [i \in 1..(IF Len(s) < n THEN Len(s) ELSE n) |-> s[i]]

\* C1: every score score() returns, the seven components, skills_score and
\* overall_score, lies in [0, 100] (0..10000 hundredths).
C1_ScoresInRange ==
    \A i \in ReturnedCalls : \A f \in ScoreFields :
        calls[i].result[f] >= 0 /\ calls[i].result[f] <= 10000

\* a call returned with one score at 0 and the education score, built from
\* bonuses that add up to more than 100, at 100
C1_Witness ==
    \E i \in ReturnedCalls :
        /\ calls[i].result.education_score = 10000
        /\ education_points(calls[i].resume_data, calls[i].job_data) > 100
        /\ \E f \in ScoreFields : calls[i].result[f] < 10000

\* C2: overall_score is the sum of the seven component scores weighted 10, 30, 20,
\* 10, 20, 5 and 5 percent, rounded to 2 decimals, and the weights add up to 100 percent.
C2_WeightedSum ==
    /\ weights.keywords + weights.hard_skills + weights.soft_skills + weights.job_title
       + weights.experience + weights.education + weights.formatting = 100
    /\ \A i \in ReturnedCalls :
        LET b == calls[i].result.detailed_feedback.score_breakdown
        IN  calls[i].result.overall_score =
                Round2(RAdd(RAdd(RAdd(RAdd(RAdd(RAdd(
                    RMul(b.keywords.score, Rat(10, 100)),
                    RMul(b.hard_skills.score, Rat(30, 100))),
                    RMul(b.soft_skills.score, Rat(20, 100))),
                    RMul(b.job_title.score, Rat(10, 100))),
                    RMul(b.experience.score, Rat(20, 100))),
                    RMul(b.education.score, Rat(5, 100))),
                    RMul(b.formatting.score, Rat(5, 100))))

\* a call whose seven component scores are not all equal and whose weighted sum
\* needs the rounding
C2_Witness ==
    \E i \in ReturnedCalls :
        LET r == calls[i].result IN
        /\ r.keyword_score # r.hard_skills_score
        /\ r.job_title_score # r.formatting_score
        /\ r.detailed_feedback.score_breakdown.keywords.score[2] = 3
        /\ r.overall_score % 10 # 0

\* C3: score({raw_text: "", skills: []}, {}) returns keyword 50.0, hard skills 75.0,
\* soft skills 80.0, job title 75.0, experience 70.0 and education 70.0.
C3_NoDataDefaults ==
    \A i \in NoDataCalls :
        /\ calls[i].result.status = "returned"
        /\ calls[i].result.keyword_score = 5000
        /\ calls[i].result.hard_skills_score = 7500
        /\ calls[i].result.soft_skills_score = 8000
        /\ calls[i].result.job_title_score = 7500
        /\ calls[i].result.experience_score = 7000
        /\ calls[i].result.education_score = 7000

\* the no-data call has been made and has returned
C3_Witness == \E i \in NoDataCalls : calls[i].result.status = "returned"

\* C4 as stated: the no-data call has formatting_score 40.0.
C4_FormattingForty ==
    \A i \in NoDataCalls :
        calls[i].result.status = "returned" /\ calls[i].result.formatting_score = 4000

\* C4: the no-data call has formatting_score 20.0: 100 less 20 for the file format
\* that is not .pdf, .docx or .doc, 30 for the empty text, 10 for the missing email,
\* 5 for the missing phone and 15 for the three missing section headers.
C4_FormattingTwenty ==
    \A i \in NoDataCalls :
        calls[i].result.status = "returned" /\ calls[i].result.formatting_score = 2000

\* the no-data call has been made, with no file_format and no contact_info in the resume
C4_Witness ==
    \E i \in NoDataCalls :
        /\ calls[i].resume_data.file_format.st = "absent"
        /\ calls[i].resume_data.contact_info.st = "absent"
        /\ calls[i].result.status = "returned"
        /\ calls[i].result.formatting_score < 10000

\* C5: the recommendations score() returns number at least 1 and at most 5.
C5_RecommendationCap ==
    \A i \in ReturnedCalls :
        Len(calls[i].result.recommendations) >= 1 /\ Len(calls[i].result.recommendations) <= 5

\* a call in which more than five pieces of advice were triggered and five returned
C5_Witness ==
    \E i \in ReturnedCalls :
        /\ Len(triggered_recommendations(calls[i].resume_data, calls[i].job_data,
                                         calls[i].result.detailed_feedback)) > 5
        /\ Len(calls[i].result.recommendations) = 5

C7_NeverRaises == \A i \in DOMAIN calls : calls[i].result.status = "returned"

\* C8: the hard skills score is 75 when the job names no hard skill at all, and
\* otherwise 0.8 r + 0.2 p over the lower-cased sets, all_hard_skills standing in
\* for the required set when required and preferred are both empty.
C8_HardSkillsFormula ==
    \A i \in ReturnedCalls :
        LET H == LowerSet(calls[i].resume_data.hard_skills.v)
            R0 == LowerSet(calls[i].job_data.required_hard_skills.v)
            P == LowerSet(calls[i].job_data.preferred_hard_skills.v)
            R == IF R0 = {} /\ P = {} THEN LowerSet(calls[i].job_data.all_hard_skills.v) ELSE R0
            r == IF R = {} THEN RInt(100) ELSE Rat(100 * Cardinality(H \cap R), Cardinality(R))
            p == IF P = {} THEN RInt(100) ELSE Rat(100 * Cardinality(H \cap P), Cardinality(P))
        IN  calls[i].result.detailed_feedback.score_breakdown.hard_skills.score =
                IF R = {} /\ P = {} THEN RInt(75)
                ELSE RAdd(RMul(Rat(8, 10), r), RMul(Rat(2, 10), p))

\* a call in which the resume matches a part of the required and a part of the
\* preferred hard skills
C8_Witness ==
    \E i \in ReturnedCalls :
        LET H == LowerSet(calls[i].resume_data.hard_skills.v)
            R == LowerSet(calls[i].job_data.required_hard_skills.v)
            P == LowerSet(calls[i].job_data.preferred_hard_skills.v)
        IN  /\ H \cap R # {} /\ H \cap R # R
            /\ H \cap P # {} /\ H \cap P # P
            /\ Cardinality(R) < Len(calls[i].job_data.required_hard_skills.v)

\* C9: the keyword score is 100 * matched / total over the first 10 single_words
\* and the first 5 phrases of job.keywords, matched counting those found in the
\* resume text without regard to case; it is 50 when there is no such keyword.
C9_KeywordFormula ==
    \A i \in ReturnedCalls :
        LET k == calls[i].job_data.keywords
            words == IF k.st = "none" THEN <<>> ELSE First(k.v.single_words, 10)
            phrases == IF k.st = "none" THEN <<>> ELSE First(k.v.phrases, 5)
            text == Lower(calls[i].resume_data.raw_text.v)
            total == Len(words) + Len(phrases)
            matched ==
                Cardinality({n \in DOMAIN words : Contains(text, Lower(words[n].keyword))})
                + Cardinality({n \in DOMAIN phrases : Contains(text, Lower(phrases[n]))})
        IN  calls[i].result.detailed_feedback.score_breakdown.keywords.score =
                IF total = 0 THEN RInt(50) ELSE Rat(100 * matched, total)

\* a call on a job with more than 10 single words and more than 5 phrases, some of
\* the counted ones in the resume text and some not, and one past the cut in the text
C9_Witness ==
    \E i \in ReturnedCalls :
        LET k == calls[i].job_data.keywords.v
            text == Lower(calls[i].resume_data.raw_text.v)
        IN  /\ Len(k.single_words) > 10 /\ Len(k.phrases) > 5
            /\ Contains(text, Lower(k.single_words[11].keyword))
            /\ Contains(text, Lower(k.phrases[6]))
            /\ calls[i].result.keyword_score > 0
            /\ calls[i].result.keyword_score < 10000

\* the level and the years condition of C10
C10_LevelHit(c) ==
    LET level == c.job_data.experience_required.v.level
        text == Lower(c.resume_data.raw_text.v)
    IN  /\ level # <<>>
        /\ LevelKey(level) # ""
        /\ \E n \in DOMAIN level_keywords[LevelKey(level)] :
               Contains(text, level_keywords[LevelKey(level)][n])

C10_YearsHit(c) ==
    LET years == c.job_data.experience_required.v.years
        found == year_patterns(Lower(c.resume_data.raw_text.v))
        token == IntDigits(SplitOn(years, "-")[1])
    IN  /\ years # <<>>
        /\ IsDigits(token)
        /\ \E y \in found :
            /\ \A z \in found : DigitsValue(z) <= DigitsValue(y)
            /\ DigitsValue(y) >= DigitsValue(token)

\* C10: the experience score is 70, plus 20 when a keyword of the job's experience
\* level is in the resume text, plus 10 when the largest "N years" of the resume
\* text reaches the first integer of the required years; so it is 70, 80, 90 or 100.
C10_ExperienceFormula ==
    \A i \in ReturnedCalls :
        LET x == calls[i].result.experience_score IN
        /\ x = 100 * (70 + (IF C10_LevelHit(calls[i]) THEN 20 ELSE 0)
                         + (IF C10_YearsHit(calls[i]) THEN 10 ELSE 0))
        /\ x \in {7000, 8000, 9000, 10000}

\* a call that earns both additions, the years just reaching the required years
C10_Witness ==
    \E i \in ReturnedCalls :
        /\ C10_LevelHit(calls[i]) /\ C10_YearsHit(calls[i])
        /\ calls[i].job_data.experience_required.v.years = <<"5","-","7">>
        /\ calls[i].result.experience_score = 10000


----------------------------------------------------------------------------
(* Properties of the formatting score, the feedback and the recommendations *)

Components ==
    {"keywords", "hard_skills", "soft_skills", "job_title", "experience", "education",
     "formatting"}

\* the score of a component as score() handed it to the feedback, a rational
ComponentScore(c, component) == c.result.detailed_feedback.score_breakdown[component].score

StrengthThreshold(component) == IF component = "formatting" THEN 90 ELSE 80

\* C12 as stated: a component at or above its threshold, 80 or 90 for formatting,
\* has a strength sentence of its own in detailed_feedback.strengths.
C12_StrengthPerComponent ==
    \A i \in ReturnedCalls : \A component \in Components :
        AtLeast(ComponentScore(calls[i], component), StrengthThreshold(component))
            => \E s \in strength_sentences[component] :
                   s \in Range(calls[i].result.detailed_feedback.strengths)

\* C13 as stated: a component below 60 has a weakness sentence of its own in
\* detailed_feedback.weaknesses.
C13_WeaknessPerComponent ==
    \A i \in ReturnedCalls : \A component \in Components :
        Below(ComponentScore(calls[i], component), 60)
            => \E s \in weakness_sentences[component] :
                   s \in Range(calls[i].result.detailed_feedback.weaknesses)

\* the advice of C14 in its priority order, each with the condition that triggers it
C14_Advice(c) ==
    LET f == c.result.detailed_feedback
        skills == RAdd(RMul(ComponentScore(c, "hard_skills"), Rat(7, 10)),
                       RMul(ComponentScore(c, "soft_skills"), Rat(3, 10)))
        linkedin == c.resume_data.contact_info.v.linkedin
    IN  <<[on |-> f.missing_keywords # <<>>,
           text |-> "Include these important keywords: ",
           names |-> First(f.missing_keywords, 3)],
          [on |-> f.missing_skills # <<>>,
           text |-> "Add these required skills if you have them: ",
           names |-> First(f.missing_skills, 3)],
          [on |-> RLess(ComponentScore(c, "keywords"), RInt(70)),
           text |-> "Optimize your resume with more keywords from the job description",
           names |-> <<>>],
          [on |-> RLess(skills, RInt(70)),
           text |-> "Expand your skills section with relevant technical and soft skills",
           names |-> <<>>],
          [on |-> RLess(ComponentScore(c, "experience"), RInt(70)),
           text |-> "Highlight relevant experience using action verbs and quantifiable achievements",
           names |-> <<>>],
          [on |-> RLess(ComponentScore(c, "education"), RInt(70)),
           text |-> "Ensure your education section clearly shows your degree and relevant coursework",
           names |-> <<>>],
          [on |-> RLess(ComponentScore(c, "formatting"), RInt(80)),
           text |-> "Use a simple, ATS-friendly format with clear section headers",
           names |-> <<>>],
          [on |-> linkedin = <<>>,
           text |-> "Add your LinkedIn profile URL",
           names |-> <<>>]>>

C14_Triggered(c) == {n \in 1..8 : C14_Advice(c)[n].on}

\* the n-th smallest element of a set of numbers
C14_Nth(S, n) == CHOOSE x \in S : Cardinality({y \in S : y < x}) = n - 1

C14_WellOptimized == [text |-> "Your resume is well-optimized for this position!", names |-> <<>>]

\* C14: the recommendations are the first five pieces of triggered advice in the
\* priority order missing keywords, missing skills, keywords < 70, skills < 70,
\* experience < 70, education < 70, formatting < 80, no LinkedIn; the two first name
\* at most 3 items; the well-optimized message is there if and only if nothing was
\* triggered, and is then alone.
C14_RecommendationOrder ==
    \A i \in ReturnedCalls :
        LET on == C14_Triggered(calls[i])
            n == IF Cardinality(on) < 5 THEN Cardinality(on) ELSE 5
            got == calls[i].result.recommendations
        IN  /\ on # {} =>
                got = [k \in 1..n |->
                          [text |-> C14_Advice(calls[i])[C14_Nth(on, k)].text,
                           names |-> C14_Advice(calls[i])[C14_Nth(on, k)].names]]
            /\ on = {} => got = <<C14_WellOptimized>>
            /\ (C14_WellOptimized \in Range(got)) <=> (on = {})

\* a call that triggers the keywords tip, the skills tip and more than five pieces
\* of advice in all, with more than 3 missing keywords of which 3 are named
C14_Witness ==
    \E i \in ReturnedCalls :
        /\ {3, 4} \subseteq C14_Triggered(calls[i])
        /\ Cardinality(C14_Triggered(calls[i])) > 5
        /\ Len(calls[i].result.detailed_feedback.missing_keywords) > 3
        /\ Len(calls[i].result.recommendations[1].names) = 3
        /\ Len(calls[i].result.recommendations) = 5


\* ---------------------------------------------------------------------------
\* SkillCategorizer, KeywordExtractor and JobAnalyzer
\* ---------------------------------------------------------------------------

\* the category each of the six rules gives, in the order in which they are tried
C15_RuleCategory == <<"hard", "soft", "hard", "soft", "hard", "soft">>

\* which of the six rules match the lower-cased, stripped skill k
C15_RuleMatches(k) ==
    <<k \in hard_skills_lower,
      k \in soft_skills_lower,
      MatchesAny(hard_skill_patterns, k),
      MatchesAny(soft_skill_patterns, k),
      ContainsAny(k, hard_indicators),
      ContainsAny(k, soft_indicators)>>

\* the category of the first rule that matches, "unknown" when none does
C15_Category(skill) ==
    With(C15_RuleMatches(Strip(Lower(skill))), LAMBDA hit :
        IF \A i \in DOMAIN hit : ~hit[i] THEN "unknown"
        ELSE C15_RuleCategory[CHOOSE i \in DOMAIN hit : hit[i] /\ \A j \in 1..(i - 1) : ~hit[j]])

C15_Example == <<<<"P","y","t","h","o","n">>, <<"L","e","a","d","e","r","s","h","i","p">>, <<"B","l","o","r","f">>>>

\* C15: categorize_skills puts every input skill, in input order and spelled as given,
\* in exactly one of hard_skills, soft_skills and uncategorized, the one of the first
\* rule that matches it (hard dictionary, soft dictionary, hard pattern, soft pattern,
\* hard indicator, soft indicator, otherwise uncategorized); Python, Leadership, Blorf
\* gives hard Python, soft Leadership, uncategorized Blorf
C15_FirstMatchingRule ==
    returned.fn = "categorize_skills" =>
        /\ returned.value.hard_skills
              = SelectSeq(args.skills, LAMBDA skill : C15_Category(skill) = "hard")
        /\ returned.value.soft_skills
              = SelectSeq(args.skills, LAMBDA skill : C15_Category(skill) = "soft")
        /\ returned.value.uncategorized
              = SelectSeq(args.skills, LAMBDA skill : C15_Category(skill) = "unknown")
        /\ Len(returned.value.hard_skills) + Len(returned.value.soft_skills)
              + Len(returned.value.uncategorized) = Len(args.skills)
        /\ args.skills = C15_Example =>
              returned.value = [hard_skills |-> <<<<"P","y","t","h","o","n">>>>,
                                soft_skills |-> <<<<"L","e","a","d","e","r","s","h","i","p">>>>,
                                uncategorized |-> <<<<"B","l","o","r","f">>>>]

\* the example has been categorized
C15_Witness ==
    /\ returned.fn = "categorize_skills"
    /\ args.skills = C15_Example
    /\ returned.value.uncategorized = <<<<"B","l","o","r","f">>>>

\* a skill outside the dictionaries that a hard pattern and a soft pattern both match
\* has been categorized as hard
C15_WitnessOverlap ==
    /\ returned.fn = "categorize_skills"
    /\ \E i \in DOMAIN args.skills :
          /\ C15_RuleMatches(Strip(Lower(args.skills[i])))[3]
          /\ C15_RuleMatches(Strip(Lower(args.skills[i])))[4]
          /\ ~C15_RuleMatches(Strip(Lower(args.skills[i])))[1]
          /\ ~C15_RuleMatches(Strip(Lower(args.skills[i])))[2]
    /\ Len(returned.value.hard_skills) > 0

\* the skill occurs in the text, whatever the case, with a non-word character or the
\* end of the text on each side
C16_WholeWord(skill, text) ==
    \E k \in {Lower(skill)}, t \in {Lower(text)} :
        \E p \in 1..(Len(t) + 1 - Len(k)) :
            /\ SubSeq(t, p, p + Len(k) - 1) = k
            /\ p = 1 \/ t[p - 1] \notin WordChars
            /\ p + Len(k) = Len(t) + 1 \/ t[p + Len(k)] \notin WordChars

\* C16: for every skill of the hard-skill dictionary, 'C++', 'C#' and 'CI/CD' included,
\* and every text, _skill_in_text(skill, text) is true exactly when the skill occurs in
\* the text, case-insensitively, bounded on both sides by a non-word character or the
\* text boundary; 'I use Java' matches 'Java' and 'I use Javascript' does not
C16_WholeWordOnly ==
    returned.fn = "_skill_in_text" =>
        (returned.value <=> C16_WholeWord(args.skill, args.text))

\* C17: in the record analyze() returns, all_hard_skills holds every skill of
\* required_hard_skills and of preferred_hard_skills, and all_soft_skills every skill of
\* required_soft_skills and of preferred_soft_skills, the lists compared as sets
C17_AllSkillsSuperset ==
    job_data # NotAnalyzed =>
        /\ Range(Get(job_data.required_hard_skills)) \cup Range(Get(job_data.preferred_hard_skills))
              \subseteq Range(Get(job_data.all_hard_skills))
        /\ Range(Get(job_data.required_soft_skills)) \cup Range(Get(job_data.preferred_soft_skills))
              \subseteq Range(Get(job_data.all_soft_skills))

\* a job text with a required soft skill and a preferred hard skill has been analyzed
C17_Witness ==
    /\ job_data # NotAnalyzed
    /\ Len(Get(job_data.required_hard_skills)) > 1
    /\ Len(Get(job_data.required_soft_skills)) > 0
    /\ Len(Get(job_data.preferred_hard_skills)) > 0
    /\ Cardinality(Range(Get(job_data.all_hard_skills))) = Len(Get(job_data.all_hard_skills))

\* a keyword of the named level is a substring of the lower-cased job text
C18_Hits(name) ==
    \E i \in DOMAIN job_level_keywords :
        /\ job_level_keywords[i].name = name
        /\ \E k \in DOMAIN job_level_keywords[i].keywords :
              Contains(Lower(job_description), job_level_keywords[i].keywords[k])

\* the first of entry, mid, senior, executive with a hit, None when there is none
C18_Level ==
    IF C18_Hits(<<"e","n","t","r","y">>) THEN <<"e","n","t","r","y">>
    ELSE IF C18_Hits(<<"m","i","d">>) THEN <<"m","i","d">>
    ELSE IF C18_Hits(<<"s","e","n","i","o","r">>) THEN <<"s","e","n","i","o","r">>
    ELSE IF C18_Hits(<<"e","x","e","c","u","t","i","v","e">>) THEN <<"e","x","e","c","u","t","i","v","e">>
    ELSE <<>>

\* C18: experience_required.level is the first level, in the order entry, mid, senior,
\* executive, one of whose keywords is a substring of the lower-cased job text, and None
\* when no keyword is; a text with both 'junior' and 'senior' reports 'entry'
C18_FirstLevelInOrder ==
    job_data # NotAnalyzed =>
        /\ Get(job_data.experience_required).level = C18_Level
        /\ (Contains(Lower(job_description), <<"j","u","n","i","o","r">>)
            /\ Contains(Lower(job_description), <<"s","e","n","i","o","r">>))
              => Get(job_data.experience_required).level = <<"e","n","t","r","y">>

\* a job text with both 'junior' and 'senior' has been analyzed as entry level
C18_Witness ==
    /\ job_data # NotAnalyzed
    /\ Contains(Lower(job_description), <<"j","u","n","i","o","r">>)
    /\ Contains(Lower(job_description), <<"s","e","n","i","o","r">>)
    /\ Get(job_data.experience_required).level = <<"e","n","t","r","y">>

\* a job text without any level keyword has been analyzed: the level is None
C18_WitnessNone ==
    /\ job_data # NotAnalyzed
    /\ Len(job_description) > 0
    /\ Get(job_data.experience_required).level = <<>>

\* a job text with a senior keyword and no entry or mid keyword has been analyzed
C18_WitnessSenior ==
    /\ job_data # NotAnalyzed
    /\ Get(job_data.experience_required).level = <<"s","e","n","i","o","r">>

\* the first line of a text, and its first line that is not empty (<<>> lists none)
C19_FirstLine(text) == SplitOn(text, "\n")[1]

C19_FirstNonEmptyLine(text) == Take(SelectSeq(SplitOn(text, "\n"), LAMBDA line : Len(line) > 0), 1)

\* what the 'position|title|role:' label and the 'job title:' label capture, in this
\* order, each listed when its pattern matches
C19_LabelValues(text) ==
    Flatten([i \in 1..2 |->
        With(FindIter(title_patterns[i + 1], text), LAMBDA found :
            IF Len(found) = 0 THEN <<>> ELSE <<GroupText(text, found[1].groups[1])>>)])

\* the first of the values that is shorter than 100 characters, the default without one
C19_FirstShort(values) ==
    With(SelectSeq(values, LAMBDA title : Len(title) < 100), LAMBDA short :
        IF Len(short) = 0 THEN <<"U","n","k","n","o","w","n"," ","P","o","s","i","t","i","o","n">> ELSE short[1])

\* for each job text: the title the stated order gives when the captured values are
\* stripped before they are measured, whether a label matches, and the length of the
\* first line as it stands and of the first non-empty line once stripped
C19_Titles ==
    {With(C19_FirstNonEmptyLine(t) \o C19_LabelValues(t), LAMBDA values :
        [text |-> t,
         title |-> C19_FirstShort([i \in DOMAIN values |-> Strip(values[i])]),
         label |-> Len(C19_LabelValues(t)) > 0,
         first_line |-> Len(C19_FirstLine(t)),
         stripped_line |-> IF Len(C19_FirstNonEmptyLine(t)) = 0 THEN 0
                           ELSE Len(Strip(C19_FirstNonEmptyLine(t)[1]))]) : t \in JobTexts}

C19_Entry == CHOOSE e \in C19_Titles : e.text = job_description

\* job_title is the default and every score against the job has job_title_score 75.0
C19_Default ==
    /\ Get(job_data.job_title) = <<"U","n","k","n","o","w","n"," ","P","o","s","i","t","i","o","n">>
    /\ \A i \in DOMAIN calls : calls[i].result.job_title_score = 7500

\* C19 as stated: when the first line has 100 or more characters and no label pattern
\* matches, job_title is "Unknown Position" and job_title_score is 75.0
C19_LongFirstLineIsUnknown ==
    job_data # NotAnalyzed =>
        ((C19_Entry.first_line >= 100 /\ ~C19_Entry.label) => C19_Default)

\* C19, amended: the title is the first, in the order first non-empty line, 'position|
\* title|role:' label, 'job title:' label, of the captured values that is shorter than
\* 100 characters once stripped, returned stripped; when the first non-empty line,
\* stripped, has 100 or more characters and no label pattern matches, job_title is
\* "Unknown Position" and job_title_score is 75.0
C19_TitleOrder ==
    job_data # NotAnalyzed =>
        /\ Get(job_data.job_title) = C19_Entry.title
        /\ (C19_Entry.stripped_line >= 100 /\ ~C19_Entry.label) => C19_Default

\* a resume has been scored against a job text whose first line is too long and that
\* has no label: the title is the default and the score 75.0
C19_Witness ==
    /\ job_data # NotAnalyzed
    /\ Len(calls) > 0
    /\ C19_Entry.stripped_line >= 100 /\ ~C19_Entry.label
    /\ C19_Default

\* a job text whose first line is too long has been given the title of its label
C19_WitnessLabel ==
    /\ job_data # NotAnalyzed
    /\ C19_Entry.stripped_line >= 100 /\ C19_Entry.label
    /\ Get(job_data.job_title) = <<"J","u","n","i","o","r"," ","A","n","a","l","y","s","t">>

\* a first line of 100 or more characters that is shorter once stripped is the title
C19_WitnessStripped ==
    /\ job_data # NotAnalyzed
    /\ C19_Entry.first_line >= 100 /\ C19_Entry.stripped_line < 100
    /\ Len(Get(job_data.job_title)) = 99

\* the tokens of a text that survive: the whitespace-separated pieces of the text with
\* every character other than a word character, whitespace, + and # made a space, less
\* the pieces of length <= 2, the numbers and the stop words
C20_Survivors(text) ==
    SelectSeq(SplitWs([i \in DOMAIN text |-> IF text[i] \in TokenChars THEN text[i] ELSE " "]),
              LAMBDA w : Len(w) > 2 /\ ~IsDigits(w) /\ Lower(w) \notin stop_words)

\* how often a token occurs among the tokens, and where it occurs first
C20_Count(tokens, w) == Cardinality({i \in DOMAIN tokens : tokens[i] = w})

C20_First(tokens, w) == CHOOSE i \in DOMAIN tokens : tokens[i] = w /\ \A j \in 1..(i - 1) : tokens[j] # w

\* token v ranks before token w: it is more frequent, or as frequent and met earlier
C20_Before(tokens, v, w) ==
    \/ C20_Count(tokens, v) > C20_Count(tokens, w)
    \/ C20_Count(tokens, v) = C20_Count(tokens, w) /\ C20_First(tokens, v) < C20_First(tokens, w)

\* C20: single_words of extract(text, top_n) has at most top_n entries, one per distinct
\* case-sensitive surviving token, each with its exact number of occurrences, in order of
\* non-increasing frequency with ties in order of first occurrence; no token of length
\* <= 2, number or stop word appears
C20_SingleWords ==
    returned.fn = "extract" =>
        \E tokens \in {C20_Survivors(args.text)}, words \in {returned.value.single_words} :
            /\ Len(words) <= args.top_n
            /\ Len(words) = args.top_n \/ Len(words) = Cardinality(Range(tokens))
            /\ \A i \in DOMAIN words :
                  /\ words[i].keyword \in Range(tokens)
                  /\ words[i].frequency = C20_Count(tokens, words[i].keyword)
                  /\ Len(words[i].keyword) > 2
                  /\ ~IsDigits(words[i].keyword)
                  /\ Lower(words[i].keyword) \notin stop_words
            /\ \A i, j \in DOMAIN words :
                  i < j => /\ words[i].keyword # words[j].keyword
                           /\ words[i].frequency >= words[j].frequency
                           /\ C20_Before(tokens, words[i].keyword, words[j].keyword)
            /\ \A w \in Range(tokens) :
                  (\A i \in DOMAIN words : words[i].keyword # w)
                      => \A i \in DOMAIN words : C20_Before(tokens, words[i].keyword, w)

\* extract has cut three distinct tokens to the two met first, all equally frequent
C20_Witness ==
    /\ returned.fn = "extract"
    /\ args.top_n = 2
    /\ Len(returned.value.single_words) = 2
    /\ returned.value.single_words[1].frequency = returned.value.single_words[2].frequency
    /\ Cardinality(Range(C20_Survivors(args.text))) = 3

\* extract has ranked a token met later before one met earlier, for it is more frequent
C20_WitnessFrequency ==
    /\ returned.fn = "extract"
    /\ Len(returned.value.single_words) = 2
    /\ returned.value.single_words[1].frequency > returned.value.single_words[2].frequency
    /\ \E tokens \in {C20_Survivors(args.text)} :
          C20_First(tokens, returned.value.single_words[1].keyword)
              > C20_First(tokens, returned.value.single_words[2].keyword)

\* a text with a stop word, a number and a token of two characters has been extracted
C20_WitnessDropped ==
    /\ returned.fn = "extract"
    /\ Len(returned.value.single_words) > 0
    /\ \E tokens \in {SplitWs(args.text)} :
          /\ \E i \in DOMAIN tokens : IsDigits(tokens[i])
          /\ \E i \in DOMAIN tokens : Lower(tokens[i]) \in stop_words

\* ---------------------------------------------------------------------------
\* The sentences that never appear, the recorded weights, the required skills
\* ---------------------------------------------------------------------------

C29_ExperienceTip == Tip("Highlight relevant experience using action verbs and quantifiable achievements")

C29_EducationTip == Tip("Ensure your education section clearly shows your degree and relevant coursework")

\* C29: no output of score() holds the recommendation to highlight relevant experience,
\* the recommendation about the education section or the weakness 'Experience section
\* could be stronger': experience_score and education_score are never below 70
C29_NeverBelowSeventy ==
    \A i \in ReturnedCalls :
        /\ calls[i].result.experience_score >= 7000
        /\ calls[i].result.education_score >= 7000
        /\ C29_ExperienceTip \notin Range(calls[i].result.recommendations)
        /\ C29_EducationTip \notin Range(calls[i].result.recommendations)
        /\ "Experience section could be stronger"
              \notin Range(calls[i].result.detailed_feedback.weaknesses)

\* a call has returned with both scores at 70 and fewer recommendations than the cut
\* keeps, none of them about experience or education
C29_Witness ==
    \E i \in ReturnedCalls :
        /\ calls[i].result.experience_score = 7000
        /\ calls[i].result.education_score = 7000
        /\ Len(calls[i].result.recommendations) < MaxRecommendations
        /\ Len(calls[i].result.detailed_feedback.weaknesses) > 0

\* a weight of score(), in percent, as score_breakdown writes a weight
C26_Percent(w) ==
    CASE w = 5 -> "5%" [] w = 10 -> "10%" [] w = 20 -> "20%" [] w = 30 -> "30%" [] OTHER -> "?"

\* C26: for each of the seven components, the weight score_breakdown records is the
\* weight score() applies to the component in overall_score: 10%, 30%, 20%, 10%, 20%,
\* 5%, 5% for keywords, hard_skills, soft_skills, job_title, experience, education,
\* formatting
C26_RecordedWeights ==
    \A i \in ReturnedCalls :
        \A component \in Components :
            calls[i].result.detailed_feedback.score_breakdown[component].weight
                = C26_Percent(weights[component])

\* for each job text, the names of the hard-skill dictionary that the scan of the
\* whole lower-cased text finds
C30_TextSkills ==
    {[text |-> t,
      found |-> With(Lower(t), LAMBDA text_lower :
                    {skill \in Range(hard_skills) : _skill_in_text(skill, text_lower)})] :
        t \in JobTexts}

C30_Found == (CHOOSE e \in C30_TextSkills : e.text = job_description).found

\* C30: every hard skill the whole-text dictionary scan finds in the job text, one that
\* stands only in a preferred section included, is in required_hard_skills of the record
\* analyze() returns; so all_hard_skills is empty whenever required_hard_skills and
\* preferred_hard_skills both are
C30_TextSkillsRequired ==
    job_data # NotAnalyzed =>
        /\ C30_Found \subseteq Range(Get(job_data.required_hard_skills))
        /\ (Get(job_data.required_hard_skills) = <<>> /\ Get(job_data.preferred_hard_skills) = <<>>)
              => Get(job_data.all_hard_skills) = <<>>

\* a job text without a required section whose preferred section names AWS has been
\* analyzed: AWS is a preferred and a required hard skill
C30_Witness ==
    /\ job_data # NotAnalyzed
    /\ ~Contains(Lower(job_description), <<"r","e","q","u","i","r","e","d">>)
    /\ <<"A","W","S">> \in Range(Get(job_data.preferred_hard_skills))
    /\ <<"A","W","S">> \in Range(Get(job_data.required_hard_skills))

\* a job text without any hard skill has been analyzed
C30_WitnessEmpty ==
    /\ job_data # NotAnalyzed
    /\ Len(job_description) > 0
    /\ Get(job_data.required_hard_skills) = <<>>
    /\ Get(job_data.all_hard_skills) = <<>>

\* C25: score() leaves its resume record, its job record and every field of the scorer
\* as they were, and each call made while other calls run on the same scorer and the
\* same records returns what the call returns when it runs alone
C25_NoInterference ==
    /\ [](\A i \in DOMAIN calls :
            calls[i].result = score(scorers[calls[i].scorer], calls[i].resume_data,
                                    calls[i].job_data))
    /\ [][scorers' = scorers /\ resume_data' = resume_data /\ job_data' = job_data]_vars

\* two threads are inside score() on the same scorer and the same records, one with its
\* feedback built, the other with its scores only
C25_Witness ==
    \E t, u \in Threads :
        /\ t # u
        /\ args[t].fn = "score" /\ args[u].fn = "score"
        /\ args[t].scorer = args[u].scorer
        /\ args[t].pc = "recommendations" /\ args[u].pc = "feedback"
        /\ scorers[args[t].scorer].keyword_matcher.use_llm

\* every thread has had its result from the same scorer
C25_WitnessReturned ==
    /\ Len(calls) = NumThreads
    /\ \A i \in DOMAIN calls : calls[i].result.status = "returned" /\ calls[i].scorer = 1

----------------------------------------------------------------------------
\* C21: every item of every list RequirementsParser.parse returns (must_have,
\* nice_to_have, responsibilities, benefits, qualifications) is between 5 and
\* 500 characters long.
C21_Lists(r) == <<r.must_have, r.nice_to_have, r.responsibilities, r.benefits, r.qualifications>>

C21_ItemLengths ==
    returned # NoCall /\ returned.fn = "RequirementsParser.parse" =>
        \A k \in 1..5 : \A i \in DOMAIN C21_Lists(returned.value)[k] :
            /\ Len(C21_Lists(returned.value)[k][i]) >= MinItemLength
            /\ Len(C21_Lists(returned.value)[k][i]) <= MaxItemLength

----------------------------------------------------------------------------
\* C28: _basic_match_keywords puts every job keyword in exactly one of
\* exact_matches (equal, ignoring case, to some resume keyword),
\* similar_matches (otherwise, one is a substring of the other for some resume
\* keyword) or unmatched, and
\* match_rate = 100 * (|exact_matches| + |similar_matches|) / max(1, number of
\* job keywords), which lies in [0, 100].
C28_Equal(k, resume_keywords) ==
    \E i \in DOMAIN resume_keywords : Lower(resume_keywords[i]) = Lower(k)

C28_Substring(k, resume_keywords) ==
    \E i \in DOMAIN resume_keywords :
        \/ Contains(Lower(resume_keywords[i]), Lower(k))
        \/ Contains(Lower(k), Lower(resume_keywords[i]))

C28_Result == returned.result.value

C28_PartitionAndRate ==
    returned # NoCall /\ returned.fn = "_basic_match_keywords" =>
        LET r == C28_Result
            rk == args.resume_keywords
            jk == args.job_keywords
            matched == Len(r.exact_matches) + Len(r.similar_matches)
            most == IF Len(jk) > 1 THEN Len(jk) ELSE 1
        IN  /\ r.exact_matches = SelectSeq(jk, LAMBDA k : C28_Equal(k, rk))
            /\ [n \in DOMAIN r.similar_matches |-> r.similar_matches[n].job_keyword]
                  = SelectSeq(jk, LAMBDA k : ~C28_Equal(k, rk) /\ C28_Substring(k, rk))
            /\ r.unmatched
                  = SelectSeq(jk, LAMBDA k : ~C28_Equal(k, rk) /\ ~C28_Substring(k, rk))
            /\ matched + Len(r.unmatched) = Len(jk)
            /\ r.match_rate[1] * most = 100 * matched * r.match_rate[2]
            /\ RLeq(RInt(0), r.match_rate) /\ RLeq(r.match_rate, RInt(100))

\* a call that put a job keyword in each of the three lists
C28_Witness ==
    /\ returned # NoCall /\ returned.fn = "_basic_match_keywords"
    /\ Len(C28_Result.exact_matches) = 1 /\ Len(C28_Result.similar_matches) = 1
    /\ Len(C28_Result.unmatched) = 1

\* a call with no job keyword: the rate is 0 of 1
C28_WitnessNoKeywords ==
    /\ returned # NoCall /\ returned.fn = "_basic_match_keywords"
    /\ args.job_keywords = <<>> /\ args.resume_keywords # <<>>
    /\ C28_Result.match_rate = RInt(0)

----------------------------------------------------------------------------
\* C27: in every state reached by constructing a KeywordMatcher (use_llm true or
\* false, the client constructed or not) and calling its public methods in any
\* order, with LLM calls that succeed or fail, use_llm is true only if
\* llm_client is set; a construction whose client fails leaves use_llm false
\* and llm_client None; no method call changes either field.
C27_Consistent == matcher # NotConstructed /\ matcher.use_llm => matcher.llm_client # "None"

C27_FailedConstruction ==
    matcher = NotConstructed /\ matcher' # NotConstructed /\ ~args'.client_ok =>
        ~matcher'.use_llm /\ matcher'.llm_client = "None"

C27_CallKeepsFields ==
    matcher # NotConstructed =>
        matcher'.use_llm = matcher.use_llm /\ matcher'.llm_client = matcher.llm_client

C27_LlmFlagInvariant ==
    /\ []C27_Consistent
    /\ [][C27_FailedConstruction /\ C27_CallKeepsFields]_vars

\* use_llm=True was asked for, the client failed, and two methods were called,
\* match_keywords the last
C27_Witness ==
    /\ matcher # NotConstructed /\ ~matcher.use_llm /\ matcher.llm_client = "None"
    /\ budget = MaxCalls - 2
    /\ returned # NoCall /\ returned.fn = "match_keywords"

\* a matcher with its client, after a call in which the LLM raised
C27_WitnessLlm ==
    /\ matcher # NotConstructed /\ matcher.use_llm /\ matcher.llm_client = "GroqClient"
    /\ args.fn \in other_methods /\ args.llm = GenerateRaises

----------------------------------------------------------------------------
\* C23: with the LLM enabled, whenever the LLM client raises or its response
\* holds no JSON object that can be parsed, match_keywords returns exactly what
\* _basic_match_keywords returns for the same arguments (keys exact_matches,
\* similar_matches, unmatched, match_rate, no semantic_matches), and no
\* exception reaches the caller.
C23_HoldsJsonObject(response) ==
    \E i \in DOMAIN response, j \in DOMAIN response :
        /\ i < j /\ response[i] = "{" /\ response[j] = "}"
        /\ json_loads(SubSeq(response, i, j)).ok

C23_LlmFailed ==
    /\ returned # NoCall /\ returned.fn = "match_keywords"
    /\ matcher.use_llm /\ matcher.llm_client # "None"
    /\ \/ args.llm.raises
       \/ ~IsNone(args.llm.response) /\ ~C23_HoldsJsonObject(Get(args.llm.response))

C23_FallsBack ==
    C23_LlmFailed =>
        /\ returned.result.status = "returned"
        /\ DOMAIN returned.result.value
              = {"exact_matches", "similar_matches", "unmatched", "match_rate"}
        /\ returned.result.value = _basic_match_keywords(args.resume_keywords, args.job_keywords)

\* the client raised, and the fallback found an exact match
C23_Witness ==
    /\ C23_LlmFailed /\ args.llm.raises
    /\ Len(returned.result.value.exact_matches) > 0

\* the response held braces, but nothing json.loads takes
C23_WitnessMalformed ==
    /\ C23_LlmFailed /\ ~args.llm.raises
    /\ \E i \in DOMAIN Get(args.llm.response) : Get(args.llm.response)[i] = "{"

\* the LLM answered with a JSON object: its matches are returned
C23_WitnessAnswered ==
    /\ returned # NoCall /\ returned.fn = "match_keywords"
    /\ returned.result.status = "returned"
    /\ "semantic_matches" \in DOMAIN returned.result.value

----------------------------------------------------------------------------
\* C22: ResumeParser.parse(path) fails with FileNotFoundError when the path does
\* not exist, whatever the extension, and with ValueError 'Unsupported file
\* format' when the file exists but its lower-cased extension is none of .pdf,
\* .docx, .doc, .txt; in both cases no text extractor is called and no record
\* is returned.
C22_Supported == {<<".","p","d","f">>, <<".","d","o","c","x">>, <<".","d","o","c">>, <<".","t","x","t">>}

C22_Parsed == returned # NoCall /\ returned.fn = "ResumeParser.parse"

C22_NoRecord ==
    /\ returned.result.status = "raised"
    /\ returned.result.extractors = <<>>
    /\ resume_data = NotParsed

C22_ParseErrors ==
    C22_Parsed =>
        /\ ~args.file.exists =>
              returned.result.error = "FileNotFoundError" /\ C22_NoRecord
        /\ args.file.exists /\ Lower(suffix(args.file_path)) \notin C22_Supported =>
              /\ returned.result.error = "ValueError" /\ C22_NoRecord
              /\ Take(returned.result.message, 23) = <<"U","n","s","u","p","p","o","r","t","e","d"," ","f","i","l","e"," ","f","o","r","m","a","t">>

\* a path that does not exist and has an extension no parser takes
C22_Witness ==
    /\ C22_Parsed /\ ~args.file.exists
    /\ Lower(suffix(args.file_path)) \notin C22_Supported
    /\ returned.result.error = "FileNotFoundError"

\* a file that exists under a name without a supported extension
C22_WitnessUnsupported ==
    /\ C22_Parsed /\ args.file.exists /\ args.file.readable
    /\ args.file_path = <<".","t","x","t">>
    /\ returned.result.error = "ValueError"

\* a file whose extension is supported once it is lower-cased
C22_WitnessUpperCase ==
    /\ C22_Parsed /\ args.file_path = <<"R","e","s","u","m","e",".","P","D","F">>
    /\ returned.result.status = "returned"
    /\ Get(returned.result.value.file_format) = <<".","p","d","f">>

----------------------------------------------------------------------------
\* C24: end to end, the resume text "Python Django developer, 5+ years
\* experience, email: a@b.com, phone: 555-123-4567" parsed, the job text
\* "Required skills: Python, Django. 3+ years experience required." analysed and
\* the two records scored give hard_skills_score = 100, experience_score >= 80
\* and formatting_score >= 85.
C24_Scenario(call) ==
    /\ Get(call.resume_data.raw_text) = ScenarioResume
    /\ job_description = ScenarioJob
    /\ call.result.status = "returned"

C24_WitnessText ==
    \E i \in DOMAIN calls :
        /\ C24_Scenario(calls[i])
        /\ args.fn = "_extract_information"
        /\ calls[i].result.formatting_score = 4000
====
